---- MODULE Spec2Model ----
(***************************************************************************)
(* Model of the retrieval-augmented PDF question-answering pipeline:       *)
(*   - rewriteQuery / smartRetrieval / POST   (app/api/chat-pdf/route.js)  *)
(*   - searchSimilarChunks                    (lib/rag/retrieval.js)       *)
(*   - embedText / embedBatch                 (lib/rag/embeddings.js)      *)
(*   - processPdfInBackground                 (app/api/pdf/upload/route.js)*)
(*                                                                         *)
(* Text is a sequence of one-character tokens.  "LF" is the newline, " "   *)
(* the blank; the Chinese characters of the compound-marker regex are      *)
(* written in pinyin, one token per character: he, yu, huo zhe, yi ji,     *)
(* qu bie, dui bi, bi jiao.                                                *)
(***************************************************************************)
EXTENDS Integers, Sequences, FiniteSets, TLC

VARIABLES
  apiKey,       \* process.env.OPENAI_API_KEY is set
  embeddingDim, \* dimension of the vectors of the configured EMBEDDING_MODEL
  rwQuery,      \* rewriteQuery: the originalQuery argument of the call
  rwPc,         \* rewriteQuery: "start" | "stage2" | "done"
  rwResult,     \* rewriteQuery: the rewriteResult object
  ebTexts,      \* embedBatch: the texts argument
  ebBatchSize,  \* embedBatch: options.batchSize
  ebPc,         \* embedBatch: "start" | "returned" | "threw"
  ebResults,    \* embedBatch: the array it returned
  ebRequests,   \* embedBatch: its batch requests (with their outcome), its
                \* retries and the item requests they issued, in order
  et,           \* embedText: the call made of it on its own
  pdfs,         \* table pdfs: pdf id -> its row, for the ids that were uploaded
  chunks,       \* table document_chunks: the set of its rows
  job,          \* processPdfInBackground: pdf id -> the locals of its job
  rq,           \* the question request being served by POST /api/chat-pdf
  ss,           \* searchSimilarChunks: the call made of it on its own
  gen,          \* one streamed generation: ChatLayout and the route serving it
  ar,           \* one request to a route handler of app/api and its answer
  ck            \* one call of the chunker: chunkText or chunkByPages

envVars == <<apiKey, embeddingDim>>
rwVars == <<rwQuery, rwPc, rwResult>>
ebVars == <<ebTexts, ebBatchSize, ebPc, ebResults, ebRequests, et>>
chatVars == <<pdfs, chunks, job, rq>>
sideVars == <<gen, ar, ck>>
\* what the steps of one component leave alone
genRest == <<envVars, rwVars, ebVars, chatVars, ss, ar, ck>>
arRest == <<envVars, rwVars, ebVars, chatVars, ss, gen, ck>>
ckRest == <<envVars, rwVars, ebVars, chatVars, ss, gen, ar>>

vars == <<envVars, rwVars, ebVars, chatVars, ss, sideVars>>

-----------------------------------------------------------------------------
(* Bounds of the model *)

\* longest content an LLM call of the rewriter returns, in characters
MaxContentLen == 2

\* longest list of texts handed to embedBatch when it is checked on its own
MaxTexts == 3

\* most chunks the chunker cuts an uploaded document into
MaxChunks == 3
\* the longest document of the insert loop taken alone
ManyChunks == 7

\* most rows of the document searched when searchSimilarChunks is checked on
\* its own
MaxRows == 3

\* most chunks of the ingested document that smartRetrieval is checked on
MaxDocChunks == 120

-----------------------------------------------------------------------------
(* Strings *)

Digits == {"0", "1", "2", "3", "4", "5", "6", "7", "8", "9"}

\* \s of a JavaScript regular expression, and what String.prototype.trim removes
IsSpace(c) == c \in {" ", "LF"}

RECURSIVE TrimLeft(_)
TrimLeft(s) ==
  IF s = <<>> THEN <<>>
  ELSE IF IsSpace(Head(s)) THEN TrimLeft(Tail(s)) ELSE s

RECURSIVE TrimRight(_)
TrimRight(s) ==
  IF s = <<>> THEN <<>>
  ELSE IF IsSpace(s[Len(s)]) THEN TrimRight(SubSeq(s, 1, Len(s) - 1)) ELSE s

\* String.prototype.trim
Trim(s) == TrimRight(TrimLeft(s))

\* number of leading characters of s that are digits
RECURSIVE LeadingDigits(_)
LeadingDigits(s) ==
  IF s = <<>> \/ Head(s) \notin Digits THEN 0 ELSE 1 + LeadingDigits(Tail(s))

\* subQueries.replace(/\d+\.\s*/g, ''): a match starts where a run of digits is
\* directly followed by a dot, and takes the white space after the dot with it
RECURSIVE StripNumbering(_)
StripNumbering(s) ==
  IF s = <<>> THEN <<>>
  ELSE LET k == LeadingDigits(s)
       IN IF k >= 1 /\ Len(s) > k /\ s[k + 1] = "."
          THEN StripNumbering(TrimLeft(SubSeq(s, k + 2, Len(s))))
          ELSE <<Head(s)>> \o StripNumbering(Tail(s))

\* .replace(/\n+/g, ' '): every run of newlines becomes one blank
RECURSIVE CollapseNewlines(_)
CollapseNewlines(s) ==
  IF s = <<>> THEN <<>>
  ELSE IF Head(s) = "LF"
       THEN IF Len(s) > 1 /\ s[2] = "LF"
            THEN CollapseNewlines(Tail(s))
            ELSE <<" ">> \o CollapseNewlines(Tail(s))
       ELSE <<Head(s)>> \o CollapseNewlines(Tail(s))

\* the merge of the numbered sub-questions into one retrieval string
MergeSubQueries(subQueries) == CollapseNewlines(StripNumbering(subQueries))

\* the alternatives of the regular expression that detects a compound question
CompoundMarkers ==
  { <<"he">>, <<"yu">>, <<"huo", "zhe">>, <<"yi", "ji">>,
    <<"qu", "bie">>, <<"dui", "bi">>, <<"bi", "jiao">> }

isCompoundQuery(q) ==
  \E m \in CompoundMarkers :
    \E i \in 1..Len(q) :
      /\ i + Len(m) - 1 <= Len(q)
      /\ SubSeq(q, i, i + Len(m) - 1) = m

\* embedText rejects a text that is empty or blank
EmbedAccepts(text) == Trim(text) # <<>>

-----------------------------------------------------------------------------
(* The LLM provider, as the rewriter sees it *)

Alphabet == {"1", ".", " ", "LF", "a", "he", "o", "r"}

RECURSIVE StringsUpTo(_)
StringsUpTo(n) ==
  IF n = 0 THEN { <<>> }
  ELSE LET shorter == StringsUpTo(n - 1)
       IN shorter \cup { Append(s, c) : s \in shorter, c \in Alphabet }

\* what one chat-completion call can do: answer OK with some content (a missing
\* content is the empty one: both are falsy after ?.trim()), answer with a non-OK
\* status, or throw (network error, unparsable body)
LlmOk(content) == [kind |-> "ok", content |-> content]
LlmNonOk == [kind |-> "nonok", content |-> <<>>]
LlmThrow == [kind |-> "throw", content |-> <<>>]

LlmOutcomes ==
  { LlmOk(c) : c \in StringsUpTo(MaxContentLen) } \cup {LlmNonOk, LlmThrow}

-----------------------------------------------------------------------------
(* rewriteQuery *)

NewRewriteResult(originalQuery) ==
  [ originalQuery |-> originalQuery,
    finalQuery    |-> originalQuery,
    normalizedQuery |-> <<>>,
    queryType     |-> "original",
    steps         |-> <<>>,
    error         |-> FALSE,
    llmCalls      |-> <<>> ]

\* the catch block around both stages
RewriteCatch(r) ==
  [r EXCEPT !.queryType = "fallback",
            !.error = TRUE,
            !.steps = Append(@, "rewrite failed")]

\* (mutation of NormalizationDone: finalQuery is assigned before the result is
\* tested for emptiness)
NormalizationDone_AssignsEmpty(r, o) ==
  LET called == [r EXCEPT !.llmCalls = Append(@, "normalization")]
      normalizedQuery == Trim(o.content)
  IN IF o.kind # "ok"
     THEN [called EXCEPT !.steps = Append(@, "normalization failed")]
     ELSE IF normalizedQuery # <<>>
          THEN [called EXCEPT !.normalizedQuery = normalizedQuery,
                              !.finalQuery = normalizedQuery,
                              !.steps = Append(@, "normalization done")]
          ELSE [called EXCEPT !.finalQuery = normalizedQuery,
                              !.steps = Append(@, "normalization empty")]

\* step 1 after its fetch returned (o.kind # "throw")
NormalizationDone(r, o) ==
  LET called == [r EXCEPT !.llmCalls = Append(@, "normalization")]
      normalizedQuery == Trim(o.content)
  IN IF o.kind # "ok"
     THEN [called EXCEPT !.steps = Append(@, "normalization failed")]
     ELSE IF normalizedQuery # <<>>
          THEN [called EXCEPT !.normalizedQuery = normalizedQuery,
                              !.finalQuery = normalizedQuery,
                              !.steps = Append(@, "normalization done")]
          ELSE [called EXCEPT !.steps = Append(@, "normalization empty")]

Normalization(r, o) ==
  IF o.kind = "throw"
  THEN RewriteCatch([r EXCEPT !.llmCalls = Append(@, "normalization")])
  ELSE NormalizationDone(r, o)

\* step 2 up to its fetch: the branch is chosen and recorded before the call
Stage2Begin(r) ==
  IF isCompoundQuery(r.finalQuery)
  THEN [r EXCEPT !.queryType = "decomposition",
                 !.steps = Append(@, "use decomposition"),
                 !.llmCalls = Append(@, "decomposition")]
  ELSE [r EXCEPT !.queryType = "expansion",
                 !.steps = Append(@, "use expansion"),
                 !.llmCalls = Append(@, "expansion")]

Stage2Done(r, o) ==
  LET content == Trim(o.content)
  IN IF r.queryType = "decomposition"
     THEN IF o.kind # "ok"
          THEN [r EXCEPT !.steps = Append(@, "decomposition API failed")]
          ELSE IF content # <<>>
               THEN [r EXCEPT !.finalQuery = MergeSubQueries(content)]
               ELSE [r EXCEPT !.steps = Append(@, "decomposition failed")]
     ELSE IF o.kind # "ok"
          THEN [r EXCEPT !.steps = Append(@, "expansion API failed")]
          ELSE IF content # <<>>
               THEN [r EXCEPT !.finalQuery = content]
               ELSE [r EXCEPT !.steps = Append(@, "expansion failed")]

Stage2(r, o) ==
  IF o.kind = "throw"
  THEN RewriteCatch(Stage2Begin(r))
  ELSE Stage2Done(Stage2Begin(r), o)

\* the whole call, given what its LLM calls do (o2 is not consulted when the
\* first call throws)
rewriteQuery(originalQuery, o1, o2) ==
  IF o1.kind = "throw"
  THEN Normalization(NewRewriteResult(originalQuery), o1)
  ELSE Stage2(Normalization(NewRewriteResult(originalQuery), o1), o2)

-----------------------------------------------------------------------------
(* The embedder: embedText and embedBatch *)

\* A vector is known by what the model needs of it: whether it is all zeros,
\* the text it embeds, and its dimension (its length).
ZeroVector(dim) == [zero |-> TRUE, of |-> <<>>, dim |-> dim]
Embedding(text, dim) == [zero |-> FALSE, of |-> text, dim |-> dim]

\* dimension of the zero vector that embedBatch substitutes for a failed item
ZERO_FILL_DIMENSION == 1024

\* options.batchSize when the caller gives none
DEFAULT_BATCH_SIZE == 50

\* dimensions of the embedding models that can be configured
Dims == {768, 1024}

\* what one single-text request to the provider can do: return the embedding,
\* return a vector of zeros of the model's dimension, or fail (non-OK status,
\* network error, malformed body)
EmbedOutcomes == {"ok", "zero", "fail"}

\* what one batch request can do: return one embedding per input in input
\* order, fail (non-OK status or network error), or return the wrong number
\* of items
BatchOutcomes == {"ok", "api error", "count mismatch"}

\* embedText(text): [threw, vector]; a request is issued only after both guards
embedTextIssues(text, key) == EmbedAccepts(text) /\ key

\* the error embedText throws, "" when it returns: the guards come in this
\* order, and every failure of the request is rethrown by the catch block
embedTextError(text, key, outcome) ==
  IF ~EmbedAccepts(text) THEN "text is empty"
  ELSE IF ~key THEN "OPENAI_API_KEY not configured"
  ELSE IF outcome = "fail" THEN "vectorization failed"
  ELSE ""

embedText(text, key, dim, outcome) ==
  IF ~EmbedAccepts(text) \/ ~key \/ outcome = "fail"
  THEN [threw |-> TRUE, vector |-> ZeroVector(0)]
  ELSE [threw |-> FALSE,
        vector |-> IF outcome = "zero" THEN ZeroVector(dim) ELSE Embedding(text, dim)]

\* (mutation of RetryItem: a failed item is skipped instead of zero-filled)
RetryItem_SkipsFailed(text, key, dim, outcome) ==
  LET r == embedText(text, key, dim, outcome)
  IN IF r.threw THEN <<>> ELSE <<r.vector>>

\* one turn of the item-by-item retry loop: what it pushes onto results
RetryItem(text, key, dim, outcome) ==
  LET r == embedText(text, key, dim, outcome)
  IN IF r.threw THEN <<ZeroVector(ZERO_FILL_DIMENSION)>> ELSE <<r.vector>>

\* (mutation of RetryLog: the request of a retried item is sent twice)
RetryLog_SendsTwice(text, idx, key) ==
  << <<"retry", idx>> >> \o
  (IF embedTextIssues(text, key) THEN << <<"item", idx>>, <<"item", idx>> >> ELSE <<>>)

\* what one turn of the retry loop adds to the log: the embedText call for
\* texts[idx] and the provider request that call issues, if it issues one
RetryLog(text, idx, key) ==
  << <<"retry", idx>> >> \o
  (IF embedTextIssues(text, key) THEN << <<"item", idx>> >> ELSE <<>>)

\* the retry loop over batch[j..], j counted from 1; idx0 is the index in texts
\* of the item before batch[1]
RECURSIVE RetryBatch(_, _, _, _, _, _)
RetryBatch(batch, j, idx0, key, dim, itemOut) ==
  IF j > Len(batch) THEN [results |-> <<>>, requests |-> <<>>]
  ELSE LET rest == RetryBatch(batch, j + 1, idx0, key, dim, itemOut)
       IN [results  |-> RetryItem(batch[j], key, dim, itemOut[idx0 + j]) \o rest.results,
           requests |-> RetryLog(batch[j], idx0 + j, key) \o rest.requests]

\* data.data.map(item => item.embedding) of a batch response that passed the
\* count check
BatchVectors(batch, dim) == [k \in 1..Len(batch) |-> Embedding(batch[k], dim)]

Min(a, b) == IF a <= b THEN a ELSE b

\* the for loop over the batches, from offset i (counted from 0)
RECURSIVE EmbedBatchLoop(_, _, _, _, _, _, _)
EmbedBatchLoop(texts, batchSize, i, key, dim, batchOut, itemOut) ==
  IF i >= Len(texts) THEN [results |-> <<>>, requests |-> <<>>]
  ELSE LET batch == SubSeq(texts, i + 1, Min(i + batchSize, Len(texts)))
           batchNum == (i \div batchSize) + 1
           this == IF batchOut[batchNum] = "ok"
                   THEN [results |-> BatchVectors(batch, dim), requests |-> <<>>]
                   ELSE RetryBatch(batch, 1, i, key, dim, itemOut)
           rest == EmbedBatchLoop(texts, batchSize, i + batchSize, key, dim,
                                  batchOut, itemOut)
       IN [results  |-> this.results \o rest.results,
           requests |-> << <<"batch", batchNum, batchOut[batchNum]>> >>
                          \o this.requests \o rest.requests]

\* embedBatch(texts, {batchSize}): [threw, results, requests].  The empty list
\* is answered before the credential is looked at; the one error embedBatch
\* throws is the missing credential, every other failure is caught in the loop.
embedBatch(texts, batchSize, key, dim, batchOut, itemOut) ==
  IF Len(texts) = 0
  THEN [threw |-> FALSE, results |-> <<>>, requests |-> <<>>]
  ELSE IF ~key
       THEN [threw |-> TRUE, results |-> <<>>, requests |-> <<>>]
       ELSE LET r == EmbedBatchLoop(texts, batchSize, 0, key, dim, batchOut, itemOut)
            IN [threw |-> FALSE, results |-> r.results, requests |-> r.requests]

\* Math.ceil(texts.length / batchSize)
NumBatches(n, batchSize) == (n + batchSize - 1) \div batchSize

-----------------------------------------------------------------------------
(* The chunk repository: similarity search and the two fallback reads *)

PdfIds == {"p1"}

\* the embedding provider of the model: the direction of a text's embedding,
\* in degrees within one plane, is decided by the first character of the text
ProviderAngle(text) ==
  LET t == Trim(text)
  IN IF t = <<>> THEN 90
     ELSE IF t[1] = "a" THEN 0
     ELSE IF t[1] = "b" THEN 60
     ELSE 90

\* similarities are written in ten-thousandths, the precision of toFixed(4)
SIM_STANDARD == 6000
SIM_RELAXED == 4000
TOPK_STANDARD == 5
TOPK_RELAXED == 8
ENOUGH_CHUNKS == 3
SAMPLE_TARGET == 10
SAMPLE_SCAN == 100
FALLBACK_TAKE == 10

Abs(x) == IF x < 0 THEN -x ELSE x

\* the cosine of the angle between two directions of the model
CosOfAngle(d) ==
  IF d = 0 THEN 10000
  ELSE IF d = 30 THEN 8660
  ELSE IF d = 60 THEN 5000
  ELSE 0

\* 1 - (embedding <=> query): NaN when one of the two is all zeros, and NaN
\* passes no >= comparison
IsNaNSimilarity(q, e) == q.zero \/ e.zero
Similarity(q, e) == CosOfAngle(Abs(ProviderAngle(q.of) - ProviderAngle(e.of)))

\* (mutation of Qualifying: the condition on p.id is not appended)
Qualifying_AnyDocument(rows, q, pdfId, threshold) ==
  { c \in rows :
      /\ c.hasEmbedding
      /\ ~IsNaNSimilarity(q, c.embedding)
      /\ Similarity(q, c.embedding) >= threshold }

\* the rows of the WHERE clause of searchSimilarChunks
Qualifying(rows, q, pdfId, threshold) ==
  { c \in rows :
      /\ c.hasEmbedding
      /\ pdfId # "" => c.pdfId = pdfId
      /\ ~IsNaNSimilarity(q, c.embedding)
      /\ Similarity(q, c.embedding) >= threshold }

\* the pgvector operator refuses two vectors of different dimensions
DimensionClash(rows, q, pdfId) ==
  \E c \in rows :
    /\ c.hasEmbedding
    /\ pdfId # "" => c.pdfId = pdfId
    /\ c.embedding.dim # q.dim

Scored(c, q) ==
  [pdfId |-> c.pdfId, chunkIndex |-> c.chunkIndex, content |-> c.content,
   scored |-> TRUE, similarity |-> Similarity(q, c.embedding)]

Unscored(c) ==
  [pdfId |-> c.pdfId, chunkIndex |-> c.chunkIndex, content |-> c.content,
   scored |-> FALSE, similarity |-> 0]

\* ORDER BY distance LIMIT topK: every list the database may answer with (the
\* order of rows at equal distance is the database's choice)
RankedLists(rows, q, pdfId, topK, threshold) ==
  LET Q == Qualifying(rows, q, pdfId, threshold)
      k == Min(topK, Cardinality(Q))
  IN { [i \in 1..k |-> Scored(f[i], q)] :
         f \in { g \in [1..k -> Q] :
                   /\ \A i, j \in 1..k : i < j =>
                        /\ g[i] # g[j]
                        /\ Similarity(q, g[i].embedding) >= Similarity(q, g[j].embedding)
                   /\ \A c \in Q : (\A i \in 1..k : g[i] # c) =>
                        \A i \in 1..k :
                          Similarity(q, c.embedding) <= Similarity(q, g[i].embedding) } }

\* searchSimilarChunks(query, {pdfId, topK, threshold}): what the call can do,
\* as [threw, queryVector, list].  pdfId "" is the pdfId that is not given.
\* Every failure of the embedding or of the query is rethrown by the catch
\* block.
searchSimilarChunks(rows, query, pdfId, topK, threshold, key, dim, eo, dbOk) ==
  LET e == embedText(query, key, dim, eo)
  IN IF e.threw \/ ~dbOk \/ DimensionClash(rows, e.vector, pdfId)
     THEN { [threw |-> TRUE, queryVector |-> e.vector, list |-> <<>>] }
     ELSE { [threw |-> FALSE, queryVector |-> e.vector, list |-> l] :
              l \in RankedLists(rows, e.vector, pdfId, topK, threshold) }

\* findMany({ where: { pdfId }, orderBy: { chunkIndex: 'asc' }, take }): the
\* first take rows of S in chunk-index order
RECURSIVE InIndexOrder(_, _)
InIndexOrder(S, take) ==
  IF S = {} \/ take = 0 THEN <<>>
  ELSE LET first == CHOOSE c \in S : \A d \in S : c.chunkIndex <= d.chunkIndex
       IN <<first>> \o InIndexOrder(S \ {first}, take - 1)

Take(seq, n) == SubSeq(seq, 1, Min(n, Len(seq)))

\* (mutation of findManyByPdf: twice the rows asked for are read)
findManyByPdf_TakesTwice(rows, pdfId, take) ==
  InIndexOrder({ c \in rows : c.pdfId = pdfId }, 2 * take)

findManyByPdf(rows, pdfId, take) ==
  InIndexOrder({ c \in rows : c.pdfId = pdfId }, take)

\* (mutation of SampleStep: the quotient is rounded down and one is added)
SampleStep_FloorPlusOne(totalChunks) ==
  LET c == (totalChunks \div SAMPLE_TARGET) + 1
  IN IF c < 1 THEN 1 ELSE c

\* Math.max(1, Math.ceil(totalChunks / 10))
SampleStep(totalChunks) ==
  LET c == (totalChunks + SAMPLE_TARGET - 1) \div SAMPLE_TARGET
  IN IF c < 1 THEN 1 ELSE c

\* allChunks.filter((_, idx) => idx % step === 0), idx counted from 0
RECURSIVE EveryNth(_, _, _)
EveryNth(seq, step, idx) ==
  IF seq = <<>> THEN <<>>
  ELSE (IF idx % step = 0 THEN <<Head(seq)>> ELSE <<>>)
         \o EveryNth(Tail(seq), step, idx + 1)

\* (mutation of UniformSample: the filter keeps positions step, 2 * step, ...
\* and leaves out position 0)
UniformSample_SkipsFirst(rows, pdfId, totalChunks) ==
  LET allChunks == findManyByPdf(rows, pdfId, SAMPLE_SCAN)
      kept == EveryNth(allChunks, SampleStep(totalChunks), 0)
      sampled == Take(IF kept = <<>> THEN <<>> ELSE Tail(kept), SAMPLE_TARGET)
  IN [i \in 1..Len(sampled) |-> Unscored(sampled[i])]

\* strategy 3 of smartRetrieval
UniformSample(rows, pdfId, totalChunks) ==
  LET allChunks == findManyByPdf(rows, pdfId, SAMPLE_SCAN)
      sampled == Take(EveryNth(allChunks, SampleStep(totalChunks), 0), SAMPLE_TARGET)
  IN [i \in 1..Len(sampled) |-> Unscored(sampled[i])]

\* strategy 4 of smartRetrieval
FirstN(rows, pdfId) ==
  LET first == findManyByPdf(rows, pdfId, FALLBACK_TAKE)
  IN [i \in 1..Len(first) |-> Unscored(first[i])]

-----------------------------------------------------------------------------
(* Ingestion: the upload handler and processPdfInBackground *)

VECTOR_DIMENSION == 1024
MAX_INSERT_FAILURES == 5

\* the contents the chunker cuts a document into (chunkText returns no chunk
\* for an empty or blank text, and no blank chunk)
ChunkTexts == { <<"a">>, <<"b">> }

RECURSIVE ListsUpTo(_, _)
ListsUpTo(S, n) ==
  IF n = 0 THEN { <<>> }
  ELSE LET shorter == ListsUpTo(S, n - 1)
       IN shorter \cup { Append(l, x) : l \in shorter, x \in S }

NoPdf == [exists |-> FALSE, status |-> "", totalChunks |-> 0, errorMessage |-> ""]

NoJob ==
  [pc |-> "none", texts |-> <<>>, vectors |-> <<>>, actualDimension |-> 0,
   i |-> 0, successCount |-> 0, failCount |-> 0, error |-> ""]

\* POST /api/pdf/upload: the row is created 'processing' and the job is started
Upload(p) ==
  /\ ~pdfs[p].exists
  /\ pdfs' = [pdfs EXCEPT ![p] =
       [exists |-> TRUE, status |-> "processing", totalChunks |-> 0,
        errorMessage |-> ""]]
  /\ job' = [job EXCEPT ![p] = [NoJob EXCEPT !.pc = "start"]]
  /\ UNCHANGED <<chunks, rq, envVars, rwVars, ebVars, ss, sideVars>>

\* POST /api/pdf/status (upload by URL): the row is created with the column
\* default 'processing' and no job is started for it
UploadByUrl(p) ==
  /\ ~pdfs[p].exists
  /\ pdfs' = [pdfs EXCEPT ![p] =
       [exists |-> TRUE, status |-> "processing", totalChunks |-> 0,
        errorMessage |-> ""]]
  /\ UNCHANGED <<chunks, job, rq, envVars, rwVars, ebVars, ss, sideVars>>

\* vectors[0]?.length || VECTOR_DIMENSION
ActualDimension(vectors) ==
  IF Len(vectors) > 0 /\ vectors[1].dim # 0 THEN vectors[1].dim ELSE VECTOR_DIMENSION

\* steps 1 to 3 of the job: parse, chunk, embed; none of them touches the
\* database.  A throw of any of them is caught by the job's catch block.
IngestPrepare(p) ==
  /\ job[p].pc = "start"
  /\ \/ \E why \in {"pdf parse failed", "chunking failed"} :
          job' = [job EXCEPT ![p].pc = "catch", ![p].error = why]
     \/ \E texts \in ListsUpTo(ChunkTexts, MaxChunks) :
          \E batchOut \in [1..NumBatches(Len(texts), DEFAULT_BATCH_SIZE) -> BatchOutcomes],
              itemOut \in [1..Len(texts) -> {"ok", "fail"}] :
            LET r == embedBatch(texts, DEFAULT_BATCH_SIZE, apiKey, embeddingDim,
                                batchOut, itemOut)
            IN IF r.threw
               THEN job' = [job EXCEPT ![p].pc = "catch",
                                       ![p].error = "OPENAI_API_KEY not configured"]
               ELSE job' = [job EXCEPT ![p].pc = "insert",
                                       ![p].texts = texts,
                                       ![p].vectors = r.results,
                                       ![p].actualDimension = ActualDimension(r.results)]
  /\ UNCHANGED <<pdfs, chunks, rq, envVars, rwVars, ebVars, ss, sideVars>>

\* the row that one turn of the insert loop writes for chunk i (from 0)
ChunkRow(p, j, i) ==
  LET vector == j.vectors[i + 1]
  IN [pdfId |-> p, chunkIndex |-> i, content |-> j.texts[i + 1],
      hasEmbedding |-> vector.dim > 0, embedding |-> vector]

\* the cast $5::vector(actualDimension) refuses a vector of another length
InsertAccepted(j, i, dbOk) ==
  LET vector == j.vectors[i + 1]
  IN dbOk /\ (vector.dim > 0 => vector.dim = j.actualDimension)

\* (mutation of IngestInsert: the row is marked 'ready' by the first turn of
\* the loop instead of after the loop)
IngestInsert_ReadyEarly(p) ==
  /\ job[p].pc = "insert"
  /\ job[p].i < Len(job[p].texts)
  /\ \E dbOk \in BOOLEAN :
       LET j == job[p]
       IN IF InsertAccepted(j, j.i, dbOk)
          THEN /\ chunks' = chunks \cup {ChunkRow(p, j, j.i)}
               /\ job' = [job EXCEPT ![p].i = j.i + 1,
                                     ![p].successCount = j.successCount + 1]
          ELSE /\ chunks' = chunks
               /\ job' = IF j.failCount + 1 > MAX_INSERT_FAILURES
                         THEN [job EXCEPT ![p].failCount = j.failCount + 1,
                                          ![p].pc = "catch",
                                          ![p].error = "too many insert failures"]
                         ELSE [job EXCEPT ![p].failCount = j.failCount + 1,
                                          ![p].i = j.i + 1]
  /\ pdfs' = [pdfs EXCEPT ![p].status = "ready"]
  /\ UNCHANGED <<rq, envVars, rwVars, ebVars, ss, sideVars>>

\* one turn of the insert loop
IngestInsert(p) ==
  /\ job[p].pc = "insert"
  /\ job[p].i < Len(job[p].texts)
  /\ \E dbOk \in BOOLEAN :
       LET j == job[p]
       IN IF InsertAccepted(j, j.i, dbOk)
          THEN /\ chunks' = chunks \cup {ChunkRow(p, j, j.i)}
               /\ job' = [job EXCEPT ![p].i = j.i + 1,
                                     ![p].successCount = j.successCount + 1]
          ELSE /\ chunks' = chunks
               /\ job' = IF j.failCount + 1 > MAX_INSERT_FAILURES
                         THEN [job EXCEPT ![p].failCount = j.failCount + 1,
                                          ![p].pc = "catch",
                                          ![p].error = "too many insert failures"]
                         ELSE [job EXCEPT ![p].failCount = j.failCount + 1,
                                          ![p].i = j.i + 1]
  /\ UNCHANGED <<pdfs, rq, envVars, rwVars, ebVars, ss, sideVars>>

\* (mutation of IngestReady: a statement after the update throws, so the job
\* goes on into its catch block)
IngestReady_ThrowsAfterUpdate(p) ==
  /\ job[p].pc = "insert"
  /\ job[p].i = Len(job[p].texts)
  /\ \E dbOk \in BOOLEAN :
       IF dbOk
       THEN /\ pdfs' = [pdfs EXCEPT ![p].status = "ready",
                                    ![p].totalChunks = job[p].successCount]
            /\ job' = [job EXCEPT ![p].pc = "catch", ![p].error = "late failure"]
       ELSE /\ pdfs' = pdfs
            /\ job' = [job EXCEPT ![p].pc = "catch", ![p].error = "status update failed"]
  /\ UNCHANGED <<chunks, rq, envVars, rwVars, ebVars, ss, sideVars>>

\* (mutation of IngestReady: totalChunks is the number of chunks cut, not the
\* number of chunks stored)
IngestReady_CountsAllChunks(p) ==
  /\ job[p].pc = "insert"
  /\ job[p].i = Len(job[p].texts)
  /\ \E dbOk \in BOOLEAN :
       IF dbOk
       THEN /\ pdfs' = [pdfs EXCEPT ![p].status = "ready",
                                    ![p].totalChunks = Len(job[p].texts)]
            /\ job' = [job EXCEPT ![p] = [NoJob EXCEPT !.pc = "end"]]
       ELSE /\ pdfs' = pdfs
            /\ job' = [job EXCEPT ![p].pc = "catch", ![p].error = "status update failed"]
  /\ UNCHANGED <<chunks, rq, envVars, rwVars, ebVars, ss, sideVars>>

\* step 5: the row becomes 'ready' with totalChunks = successCount, unless the
\* update itself throws
IngestReady(p) ==
  /\ job[p].pc = "insert"
  /\ job[p].i = Len(job[p].texts)
  /\ \E dbOk \in BOOLEAN :
       IF dbOk
       THEN /\ pdfs' = [pdfs EXCEPT ![p].status = "ready",
                                    ![p].totalChunks = job[p].successCount]
            /\ job' = [job EXCEPT ![p] = [NoJob EXCEPT !.pc = "end"]]
       ELSE /\ pdfs' = pdfs
            /\ job' = [job EXCEPT ![p].pc = "catch", ![p].error = "status update failed"]
  /\ UNCHANGED <<chunks, rq, envVars, rwVars, ebVars, ss, sideVars>>

\* the catch block: the row becomes 'failed' with the error's message, unless
\* this update throws too (then it is only logged)
IngestCatch(p) ==
  /\ job[p].pc = "catch"
  /\ \E dbOk \in BOOLEAN :
       pdfs' = IF dbOk
               THEN [pdfs EXCEPT ![p].status = "failed",
                                 ![p].errorMessage = job[p].error]
               ELSE pdfs
  /\ job' = [job EXCEPT ![p] = [NoJob EXCEPT !.pc = "end"]]
  /\ UNCHANGED <<chunks, rq, envVars, rwVars, ebVars, ss, sideVars>>

-----------------------------------------------------------------------------
(* POST /api/chat-pdf: the gate, smartRetrieval, the answer *)

\* the questions and document references a client sends
Messages == { <<" ">>, <<"a">>, <<"b", "he">> }
RequestedPdfIds == {"", "p1", "p2"}

\* what an LLM call of the rewriter does while a question is served
ChatLlmOutcomes == { LlmThrow, LlmNonOk, LlmOk(<<"b">>), LlmOk(<<"1", ".">>) }

\* what the answer-generation call does: a completion, a completion without
\* content, a non-OK status, a network error
AnswerOutcomes == {"ok", "empty", "401", "429", "500", "503", "throw"}

NoResponse == [status |-> 0, error |-> "", details |-> "", chunksRetrieved |-> 0]

Response(status, error, details) ==
  [status |-> status, error |-> error, details |-> details, chunksRetrieved |-> 0]

IdleRq ==
  [pc |-> "idle", message |-> <<>>, pdfId |-> "", pdfRecord |-> NoPdf,
   finalQuery |-> <<>>, calls |-> <<>>, outs |-> <<>>, threwAt |-> 0,
   retrieval |-> "none", relevantChunks |-> <<>>, response |-> NoResponse]

Call(op, query, n) == [op |-> op, query |-> query, n |-> n]

\* (mutation of StatusGate: the 'failed' branch is missing)
StatusGate_NoFailedBranch(pdfRecord) ==
  IF pdfRecord.status = "processing"
  THEN Response(400, "pdf is processing", pdfRecord.status)
  ELSE IF pdfRecord.status # "ready" /\ pdfRecord.status # "failed"
       THEN Response(400, "pdf status abnormal", pdfRecord.status)
       ELSE NoResponse

\* the three status checks; NoResponse lets the request pass
StatusGate(pdfRecord) ==
  IF pdfRecord.status = "processing"
  THEN Response(400, "pdf is processing", pdfRecord.status)
  ELSE IF pdfRecord.status = "failed"
       THEN Response(400, "pdf processing failed", pdfRecord.errorMessage)
       ELSE IF pdfRecord.status # "ready"
            THEN Response(400, "pdf status abnormal", pdfRecord.status)
            ELSE NoResponse

Rejected(r, response) == [r EXCEPT !.pc = "done", !.response = response]

\* authentication, the parameter checks, the lookup of the pdf row and the gate
PostBegin ==
  /\ rq.pc = "idle"
  /\ \E authed \in BOOLEAN, message \in Messages, pdfId \in RequestedPdfIds :
       LET r == [IdleRq EXCEPT !.message = message, !.pdfId = pdfId]
           found == pdfId \in PdfIds /\ pdfs[pdfId].exists
           looked == [r EXCEPT !.pdfRecord = IF found THEN pdfs[pdfId] ELSE NoPdf]
       IN rq' =
            IF ~authed THEN Rejected(r, Response(401, "login required", ""))
            ELSE IF Trim(message) = <<>>
                 THEN Rejected(r, Response(400, "message is empty", ""))
            ELSE IF pdfId = ""
                 THEN Rejected(r, Response(400, "no pdf selected", ""))
            ELSE IF ~found
                 THEN Rejected(r, Response(404, "pdf not found", ""))
            ELSE IF StatusGate(looked.pdfRecord) # NoResponse
                 THEN Rejected(looked, StatusGate(looked.pdfRecord))
            ELSE [looked EXCEPT !.pc = "rewrite"]
  /\ UNCHANGED <<pdfs, chunks, job, envVars, rwVars, ebVars, ss, sideVars>>

\* smartRetrieval, phase 1: the one call of rewriteQuery
PostRewrite ==
  /\ rq.pc = "rewrite"
  /\ \E o1, o2 \in ChatLlmOutcomes :
       rq' = [rq EXCEPT !.pc = "search1",
                        !.finalQuery = rewriteQuery(rq.message, o1, o2).finalQuery,
                        !.calls = Append(@, Call("rewriteQuery", rq.message, 0))]
  /\ UNCHANGED <<pdfs, chunks, job, envVars, rwVars, ebVars, ss, sideVars>>

\* (mutation of queryForRetrieval: the relaxed search goes back to the message)
queryForRetrieval_Strategy2UsesMessage(r, strategy) ==
  IF strategy = 2 THEN r.message ELSE r.finalQuery

\* const queryForRetrieval = rewriteResult.finalQuery, used by both searches
queryForRetrieval(r, strategy) == r.finalQuery

\* (mutation of Enough: a list of exactly three chunks misses the bar)
Enough_MoreThanThree(list) == Len(list) > ENOUGH_CHUNKS

\* (mutation of Enough: the bar is forgotten, a vector result is returned as is)
Enough_NoBar(list) == Len(list) >= 0

\* chunks.length >= 3
Enough(list) == Len(list) >= ENOUGH_CHUNKS

\* (mutation of Returned: what the earlier strategies found is put in front of
\* the list)
Returned_MergesEarlier(r, strategy, list) ==
  [r EXCEPT !.pc = "answer",
            !.outs = Append(@, [strategy |-> strategy, chunks |-> list]),
            !.retrieval = "returned",
            !.relevantChunks =
               (IF Len(r.outs) > 0 THEN r.outs[Len(r.outs)].chunks ELSE <<>>) \o list]

\* smartRetrieval returns list, the output of strategy
Returned(r, strategy, list) ==
  [r EXCEPT !.pc = "answer",
            !.outs = Append(@, [strategy |-> strategy, chunks |-> list]),
            !.retrieval = "returned",
            !.relevantChunks = list]

\* strategy yields too little: on to the next one
Escalated(r, strategy, list, next) ==
  [r EXCEPT !.pc = next,
            !.outs = Append(@, [strategy |-> strategy, chunks |-> list])]

\* (mutation of RetrievalFailed: the failure of a vector search is swallowed
\* and the request goes on with uniform sampling)
RetrievalFailed_Degrades(r, strategy) ==
  IF strategy <= 2
  THEN [r EXCEPT !.pc = "sample", !.threwAt = strategy]
  ELSE [r EXCEPT !.pc = "done", !.retrieval = "threw", !.threwAt = strategy,
                 !.response = Response(500, "retrieval unavailable", "")]

\* smartRetrieval throws out of strategy: the catch of POST answers 500
RetrievalFailed(r, strategy) ==
  [r EXCEPT !.pc = "done", !.retrieval = "threw", !.threwAt = strategy,
            !.response = Response(500, "retrieval unavailable", "")]

\* one vector strategy: searchSimilarChunks(queryForRetrieval, {pdfId, topK,
\* threshold}), then the test of its length
VectorStrategy(strategy, topK, threshold, next) ==
  \E eo \in EmbedOutcomes, dbOk \in BOOLEAN :
    LET query == queryForRetrieval(rq, strategy)
        e == embedText(query, apiKey, embeddingDim, eo)
        embedded == [rq EXCEPT !.calls = Append(@, Call("embedText", query, 0))]
        queried == [embedded EXCEPT
                      !.calls = Append(@, Call("vectorQuery", query, threshold))]
    IN IF e.threw
       THEN rq' = RetrievalFailed(embedded, strategy)
       ELSE IF ~dbOk \/ DimensionClash(chunks, e.vector, rq.pdfId)
            THEN rq' = RetrievalFailed(queried, strategy)
            ELSE \E list \in RankedLists(chunks, e.vector, rq.pdfId, topK, threshold) :
                   rq' = IF Enough(list)
                         THEN Returned(queried, strategy, list)
                         ELSE Escalated(queried, strategy, list, next)

\* strategy 1: standard vector search
PostSearch1 ==
  /\ rq.pc = "search1"
  /\ VectorStrategy(1, TOPK_STANDARD, SIM_STANDARD, "search2")
  /\ UNCHANGED <<pdfs, chunks, job, envVars, rwVars, ebVars, ss, sideVars>>

\* strategy 2: relaxed vector search
PostSearch2 ==
  /\ rq.pc = "search2"
  /\ VectorStrategy(2, TOPK_RELAXED, SIM_RELAXED, "sample")
  /\ UNCHANGED <<pdfs, chunks, job, envVars, rwVars, ebVars, ss, sideVars>>

\* (mutation of PostSample: the sample is held to the bar of the vector
\* searches)
PostSample_NeedsThree ==
  /\ rq.pc = "sample"
  /\ \E dbOk \in BOOLEAN :
       LET read == [rq EXCEPT !.calls = Append(@, Call("findMany", <<>>, SAMPLE_SCAN))]
           sampled == UniformSample(chunks, rq.pdfId, rq.pdfRecord.totalChunks)
       IN rq' = IF ~dbOk THEN RetrievalFailed(read, 3)
                ELSE IF Enough(sampled) THEN Returned(read, 3, sampled)
                ELSE Escalated(read, 3, sampled, "firstN")
  /\ UNCHANGED <<pdfs, chunks, job, envVars, rwVars, ebVars, ss, sideVars>>

\* strategy 3: uniform sampling, with the step taken from the pdf row read at
\* the gate
PostSample ==
  /\ rq.pc = "sample"
  /\ \E dbOk \in BOOLEAN :
       LET read == [rq EXCEPT !.calls = Append(@, Call("findMany", <<>>, SAMPLE_SCAN))]
           sampled == UniformSample(chunks, rq.pdfId, rq.pdfRecord.totalChunks)
       IN rq' = IF ~dbOk THEN RetrievalFailed(read, 3)
                ELSE IF Len(sampled) > 0 THEN Returned(read, 3, sampled)
                ELSE Escalated(read, 3, sampled, "firstN")
  /\ UNCHANGED <<pdfs, chunks, job, envVars, rwVars, ebVars, ss, sideVars>>

\* strategy 4: the first chunks of the document, returned whatever their number
PostFirstN ==
  /\ rq.pc = "firstN"
  /\ \E dbOk \in BOOLEAN :
       LET read == [rq EXCEPT !.calls = Append(@, Call("findMany", <<>>, FALLBACK_TAKE))]
       IN rq' = IF ~dbOk THEN RetrievalFailed(read, 4)
                ELSE Returned(read, 4, FirstN(chunks, rq.pdfId))
  /\ UNCHANGED <<pdfs, chunks, job, envVars, rwVars, ebVars, ss, sideVars>>

\* the context is built from relevantChunks and the answer model is called
PostAnswer ==
  /\ rq.pc = "answer"
  /\ IF ~apiKey
     THEN rq' = [rq EXCEPT !.pc = "done",
                           !.response = Response(500, "AI service misconfigured", "")]
     ELSE \E o \in AnswerOutcomes :
            LET called == [rq EXCEPT
                  !.pc = "done",
                  !.calls = Append(@, Call("answerLLM", rq.message, Len(rq.relevantChunks)))]
            IN rq' = IF o = "ok"
                     THEN [called EXCEPT !.response =
                             [status |-> 200, error |-> "", details |-> "success",
                              chunksRetrieved |-> Len(rq.relevantChunks)]]
                     ELSE [called EXCEPT !.response =
                             Response(500, "AI call failed", o)]
  /\ UNCHANGED <<pdfs, chunks, job, envVars, rwVars, ebVars, ss, sideVars>>

\* the response is sent; the next question may come
PostEnd ==
  /\ rq.pc = "done"
  /\ rq' = IdleRq
  /\ UNCHANGED <<pdfs, chunks, job, envVars, rwVars, ebVars, ss, sideVars>>

-----------------------------------------------------------------------------
(* Streamed generation: ChatLayout.handleSendMessage reading the stream of
   POST /api/chat (plain chat) or POST /api/chat-web-search *)

\* the content chunks one generation yields at most
MaxTokens == 2

\* the content column of the assistant message row as both paths create it
EmptyContent == [len |-> 0, mark |-> "none"]

\* no generation under way
IdleGen ==
  [path |-> "none", llmLeft |-> 0, spc |-> "idle", fullResponse |-> 0,
   isClosed |-> FALSE, controllerOpen |-> FALSE, net |-> <<>>,
   cpc |-> "idle", aiMessageId |-> FALSE, accumulatedContent |-> 0,
   content |-> EmptyContent, interrupted |-> "none", accAtInterrupt |-> 0,
   writeFailed |-> FALSE]

\* the generation once the route has returned its Response and the client
\* holds the reader: plain chat knows the id of the placeholder that
\* sendMessage created, web search waits for the init frame
NewGeneration(path, n) ==
  [IdleGen EXCEPT !.path = path, !.llmLeft = n,
                  !.spc = IF path = "websearch" THEN "init" ELSE "loop",
                  !.controllerOpen = TRUE, !.cpc = "reading",
                  !.aiMessageId = (path = "chat")]

\* safeEnqueue: false once closed; an enqueue on a cancelled stream throws
\* ERR_INVALID_STATE, which sets isClosed
safeEnqueue(g, frame) ==
  IF g.isClosed THEN g
  ELSE IF g.controllerOpen THEN [g EXCEPT !.net = Append(@, frame)]
  ELSE [g EXCEPT !.isClosed = TRUE]

\* what safeEnqueue returned
EnqueueSucceeds(g) == ~g.isClosed /\ g.controllerOpen

\* safeClose: closes the stream, the reader then sees done; /api/chat sets
\* isClosed also when close() throws, the web-search route only logs
safeClose(g) ==
  IF g.isClosed THEN g
  ELSE IF g.controllerOpen
       THEN [g EXCEPT !.net = Append(@, "end"), !.isClosed = TRUE,
                      !.controllerOpen = FALSE]
  ELSE [g EXCEPT !.isClosed = (g.path = "chat")]

\* prisma.message.update of the web-search route: content fullResponse, or
\* the error text when nothing was accumulated
ServerUpdate(g, errorText, dbOk) ==
  IF dbOk
  THEN [g EXCEPT !.content = IF g.fullResponse > 0
                              THEN [len |-> g.fullResponse, mark |-> "none"]
                              ELSE IF errorText THEN [len |-> 1, mark |-> "error"]
                              ELSE @]
  ELSE [g EXCEPT !.writeFailed = TRUE]

\* the catch block of the stream: the web-search route saves what it has
\* unless isClosed, both routes send an error frame and close
StreamCatch(g, dbOk) ==
  IF g.path = "websearch"
  THEN IF g.isClosed THEN g
       ELSE safeClose(safeEnqueue(ServerUpdate(g, TRUE, dbOk), "error"))
  ELSE safeClose(safeEnqueue(g, "error"))

\* the web-search route sends the init frame first and returns when it fails
SrvInit ==
  /\ gen.spc = "init"
  /\ gen' = [safeEnqueue(gen, "init") EXCEPT
               !.spc = IF EnqueueSucceeds(gen) THEN "loop" ELSE "closed"]
  /\ UNCHANGED genRest

\* one iteration of the for-await loop over the model's stream: the model
\* yields a content chunk or throws
SrvChunk ==
  /\ gen.spc = "loop"
  /\ gen.llmLeft > 0
  /\ \E kind \in {"content", "throw"}, dbOk \in BOOLEAN :
       gen' =
         IF kind = "throw"
         THEN [StreamCatch(gen, dbOk) EXCEPT !.spc = "closed", !.llmLeft = 0]
         ELSE IF gen.isClosed
         THEN [gen EXCEPT !.spc = "after"]
         ELSE LET g1 == [gen EXCEPT !.llmLeft = @ - 1,
                                    !.fullResponse =
                                       IF gen.path = "websearch" THEN @ + 1 ELSE @]
              IN [safeEnqueue(g1, "text") EXCEPT
                    !.spc = IF EnqueueSucceeds(g1) THEN "loop" ELSE "after"]
  /\ UNCHANGED genRest

\* after the loop: the web-search route saves fullResponse only when it is
\* non-empty and the stream is not closed, then both routes close
SrvFinish ==
  /\ gen.spc = "after" \/ (gen.spc = "loop" /\ gen.llmLeft = 0)
  /\ \E dbOk \in BOOLEAN, dbOk2 \in BOOLEAN :
       gen' =
         IF gen.path = "websearch" /\ gen.fullResponse > 0 /\ ~gen.isClosed
         THEN IF dbOk
              THEN [safeClose(ServerUpdate(gen, FALSE, TRUE)) EXCEPT !.spc = "closed"]
              ELSE [StreamCatch(gen, dbOk2) EXCEPT !.spc = "closed"]
         ELSE [safeClose(gen) EXCEPT !.spc = "closed"]
  /\ UNCHANGED genRest

\* the cancellation of the response stream reaches the server
SrvCancel ==
  /\ gen.interrupted # "none"
  /\ gen.controllerOpen
  /\ gen' = [gen EXCEPT !.controllerOpen = FALSE]
  /\ UNCHANGED genRest

\* reader.read() delivers the next frame: init gives the message id, a
\* content frame is accumulated, an error frame is skipped by the inner
\* catch, the end of the stream leaves the loop
CliRead ==
  /\ gen.cpc = "reading"
  /\ gen.net # <<>>
  /\ LET frame == Head(gen.net)
         g1 == [gen EXCEPT !.net = Tail(@)]
     IN gen' =
          CASE frame = "init" -> [g1 EXCEPT !.aiMessageId = TRUE]
            [] frame = "text" -> [g1 EXCEPT !.accumulatedContent = @ + 1]
            [] frame = "end" -> [g1 EXCEPT !.cpc = "saving"]
            [] OTHER -> g1
  /\ UNCHANGED genRest

\* PATCH /api/messages/:id as the client issues it: the row takes the
\* content sent unless the request fails
ClientPatch(g, mark, ok) ==
  IF ok THEN [g EXCEPT !.content = [len |-> g.accumulatedContent, mark |-> mark]]
  ELSE [g EXCEPT !.writeFailed = TRUE]

\* the stream ended normally: save the whole content when the id is known
CliSave ==
  /\ gen.cpc = "saving"
  /\ \E ok \in BOOLEAN :
       gen' = [(IF gen.aiMessageId THEN ClientPatch(gen, "none", ok) ELSE gen)
                 EXCEPT !.cpc = "done"]
  /\ UNCHANGED genRest

\* abortControllerRef.current.abort(): the pending read rejects with AbortError
Abort(g, why) ==
  [g EXCEPT !.cpc = "aborted", !.interrupted = why,
            !.accAtInterrupt = g.accumulatedContent]

\* handleStopGeneration: the user presses stop
UserStop ==
  /\ gen.cpc = "reading"
  /\ gen' = Abort(gen, "stop")
  /\ UNCHANGED genRest

\* handleSendMessage while generating: the new send aborts the running one
NewSendAborts ==
  /\ gen.cpc = "reading"
  /\ gen' = Abort(gen, "newSend")
  /\ UNCHANGED genRest

\* catch (streamError) on AbortError: the partial content is saved with the
\* stop mark when there is content and the id is known
CliCatch ==
  /\ gen.cpc = "aborted"
  /\ \E ok \in BOOLEAN :
       gen' = [(IF gen.accumulatedContent > 0 /\ gen.aiMessageId
                THEN ClientPatch(gen, "stopped", ok) ELSE gen)
                 EXCEPT !.cpc = "done"]
  /\ UNCHANGED genRest

\* the client goes away while reading (tab closed, connection lost): no
\* client code runs any more, the server stream is cancelled
ClientDisconnect ==
  /\ gen.cpc = "reading"
  /\ gen' = [gen EXCEPT !.cpc = "gone", !.interrupted = "disconnect",
                        !.accAtInterrupt = gen.accumulatedContent]
  /\ UNCHANGED genRest

-----------------------------------------------------------------------------
(* The route handlers of app/api: who may call them *)

\* the caller's session: none, or the signed-in user
Sessions == {"none", "u1"}

\* the conversation or PDF a request names: none named, no such row, or the
\* row of its owner
Targets == {"unnamed", "missing", "u1", "u2"}

Respond(status, log) == [status |-> status, log |-> log]

\* auth() and the 401 that ends a handler without a session
Guard(r, rest) == IF r.session = "none" THEN Respond(401, <<>>) ELSE rest

\* the row is looked up by id; a missing row and a row of another user end
\* the handler before acts
Owned(r, missingStatus, foreignStatus, acts) ==
  IF r.target = "missing" THEN Respond(missingStatus, <<"lookup">>)
  ELSE IF r.target # r.session THEN Respond(foreignStatus, <<"lookup">>)
  ELSE Respond(200, <<"lookup">> \o acts)

\* no request being served
IdleAr ==
  [pc |-> "idle",
   req |-> [endpoint |-> "", session |-> "none", target |-> "unnamed", valid |-> FALSE],
   status |-> 0, log |-> <<>>]

\* the request is for this endpoint and not answered yet
Received(endpoint) == ar.pc = "received" /\ ar.req.endpoint = endpoint

\* the request once its handler has answered
Answered(response) ==
  [ar EXCEPT !.pc = "done", !.status = response.status, !.log = response.log]

\* POST /api/chat: no session check: validates the body and calls the model
POST_chat(r) ==
  IF ~r.valid THEN Respond(400, <<>>) ELSE Respond(200, <<"model">>)

Serve_POST_chat ==
  /\ Received("POST /api/chat")
  /\ ar' = Answered(POST_chat(ar.req))
  /\ UNCHANGED arRest

\* GET /api/test: no session check: returns every row of the users table
GET_test(r) ==
  Respond(200, <<"read">>)

Serve_GET_test ==
  /\ Received("GET /api/test")
  /\ ar' = Answered(GET_test(ar.req))
  /\ UNCHANGED arRest

\* GET /api/files/:path: no session check: reads the file under public/ and returns it
GET_files(r) ==
  Respond(200, <<"file">>)

Serve_GET_files ==
  /\ Received("GET /api/files/:path")
  /\ ar' = Answered(GET_files(ar.req))
  /\ UNCHANGED arRest

\* GET /api/pdf/upload: no session check: a constant liveness answer
GET_pdf_upload(r) ==
  Respond(200, <<>>)

Serve_GET_pdf_upload ==
  /\ Received("GET /api/pdf/upload")
  /\ ar' = Answered(GET_pdf_upload(ar.req))
  /\ UNCHANGED arRest

\* POST /api/pdf/upload: session, validation, then the file and the pdfs row of the caller are written
POST_pdf_upload(r) ==
  Guard(r, IF ~r.valid THEN Respond(400, <<>>) ELSE Respond(200, <<"write">>))

Serve_POST_pdf_upload ==
  /\ Received("POST /api/pdf/upload")
  /\ ar' = Answered(POST_pdf_upload(ar.req))
  /\ UNCHANGED arRest

\* POST /api/pdf/status: session, validation, then the pdfs row of the caller is created
POST_pdf_status(r) ==
  Guard(r, IF ~r.valid THEN Respond(400, <<>>) ELSE Respond(200, <<"write">>))

Serve_POST_pdf_status ==
  /\ Received("POST /api/pdf/status")
  /\ ar' = Answered(POST_pdf_status(ar.req))
  /\ UNCHANGED arRest

\* GET /api/pdf/status: session, id, row lookup, ownership, then the status is returned
GET_pdf_status(r) ==
  Guard(r, IF r.target = "unnamed" THEN Respond(400, <<>>) ELSE Owned(r, 404, 403, <<"read">>))

Serve_GET_pdf_status ==
  /\ Received("GET /api/pdf/status")
  /\ ar' = Answered(GET_pdf_status(ar.req))
  /\ UNCHANGED arRest

\* GET /api/pdf/list: session, then the rows of the caller
GET_pdf_list(r) ==
  Guard(r, Respond(200, <<"read">>))

Serve_GET_pdf_list ==
  /\ Received("GET /api/pdf/list")
  /\ ar' = Answered(GET_pdf_list(ar.req))
  /\ UNCHANGED arRest

\* POST /api/pdf/chat: session, validation, row lookup, ownership, then file and model
POST_pdf_chat(r) ==
  Guard(r, IF ~r.valid \/ r.target = "unnamed" THEN Respond(400, <<>>)
             ELSE Owned(r, 404, 403, <<"file", "model">>))

Serve_POST_pdf_chat ==
  /\ Received("POST /api/pdf/chat")
  /\ ar' = Answered(POST_pdf_chat(ar.req))
  /\ UNCHANGED arRest

\* POST /api/chat-pdf: session, validation, findFirst filtered by the caller's id (404 for a foreign row)
POST_chat_pdf(r) ==
  Guard(r, IF ~r.valid \/ r.target = "unnamed" THEN Respond(400, <<>>)
             ELSE Owned(r, 404, 404, <<"read", "model">>))

Serve_POST_chat_pdf ==
  /\ Received("POST /api/chat-pdf")
  /\ ar' = Answered(POST_chat_pdf(ar.req))
  /\ UNCHANGED arRest

\* POST /api/chat-web-search: session, validation, then a new conversation or the named one after the ownership check
POST_chat_web_search(r) ==
  Guard(r, IF ~r.valid THEN Respond(400, <<>>)
             ELSE IF r.target = "unnamed" THEN Respond(200, <<"write", "model">>)
             ELSE Owned(r, 403, 403, <<"write", "model">>))

Serve_POST_chat_web_search ==
  /\ Received("POST /api/chat-web-search")
  /\ ar' = Answered(POST_chat_web_search(ar.req))
  /\ UNCHANGED arRest

\* PATCH /api/conversations/:id: session, row lookup, ownership, update
PATCH_conversation(r) ==
  Guard(r, Owned(r, 404, 403, <<"write">>))

Serve_PATCH_conversation ==
  /\ Received("PATCH /api/conversations/:id")
  /\ ar' = Answered(PATCH_conversation(ar.req))
  /\ UNCHANGED arRest

\* DELETE /api/conversations/:id: session, row lookup, ownership, delete
DELETE_conversation(r) ==
  Guard(r, Owned(r, 404, 403, <<"write">>))

Serve_DELETE_conversation ==
  /\ Received("DELETE /api/conversations/:id")
  /\ ar' = Answered(DELETE_conversation(ar.req))
  /\ UNCHANGED arRest

\* POST /api/conversations/:id/title: session, row lookup, ownership, then model and update
POST_conversation_title(r) ==
  Guard(r, Owned(r, 404, 403, <<"read", "model", "write">>))

Serve_POST_conversation_title ==
  /\ Received("POST /api/conversations/:id/title")
  /\ ar' = Answered(POST_conversation_title(ar.req))
  /\ UNCHANGED arRest

\* GET /api/conversations/:id/messages: session, row lookup, ownership, messages
GET_conversation_messages(r) ==
  Guard(r, Owned(r, 404, 403, <<"read">>))

Serve_GET_conversation_messages ==
  /\ Received("GET /api/conversations/:id/messages")
  /\ ar' = Answered(GET_conversation_messages(ar.req))
  /\ UNCHANGED arRest

\* POST /api/conversations/:id/messages: session, row lookup, ownership, the two message rows
POST_conversation_messages(r) ==
  Guard(r, Owned(r, 404, 403, <<"write">>))

Serve_POST_conversation_messages ==
  /\ Received("POST /api/conversations/:id/messages")
  /\ ar' = Answered(POST_conversation_messages(ar.req))
  /\ UNCHANGED arRest

\* GET /api/conversations: session, then the conversations of the caller
GET_conversations(r) ==
  Guard(r, Respond(200, <<"read">>))

Serve_GET_conversations ==
  /\ Received("GET /api/conversations")
  /\ ar' = Answered(GET_conversations(ar.req))
  /\ UNCHANGED arRest

\* POST /api/conversations: session, then a conversation of the caller
POST_conversations(r) ==
  Guard(r, Respond(200, <<"write">>))

Serve_POST_conversations ==
  /\ Received("POST /api/conversations")
  /\ ar' = Answered(POST_conversations(ar.req))
  /\ UNCHANGED arRest

\* GET /api/user/profile: session, then the caller's own row
GET_user_profile(r) ==
  Guard(r, Respond(200, <<"read">>))

Serve_GET_user_profile ==
  /\ Received("GET /api/user/profile")
  /\ ar' = Answered(GET_user_profile(ar.req))
  /\ UNCHANGED arRest

\* PATCH /api/user/profile: session, validation, update of the caller's own row
PATCH_user_profile(r) ==
  Guard(r, IF ~r.valid THEN Respond(400, <<>>) ELSE Respond(200, <<"write">>))

Serve_PATCH_user_profile ==
  /\ Received("PATCH /api/user/profile")
  /\ ar' = Answered(PATCH_user_profile(ar.req))
  /\ UNCHANGED arRest

-----------------------------------------------------------------------------
(* The chunker: chunkText and chunkByPages of lib/rag/chunking.js *)

\* pages of a parsed PDF, and characters of one page
MaxPages == 2
MaxPageLen == 3

\* RecursiveCharacterTextSplitter.createDocuments, as far as the chunker
\* depends on it: consecutive pieces of at most chunkSize characters, each
\* stripped of surrounding whitespace, the empty ones dropped
RECURSIVE SplitDocs(_, _)
SplitDocs(text, chunkSize) ==
  IF text = <<>> THEN <<>>
  ELSE LET n == Min(chunkSize, Len(text))
           piece == Trim(SubSeq(text, 1, n))
       IN (IF piece = <<>> THEN <<>> ELSE <<piece>>)
            \o SplitDocs(SubSeq(text, n + 1, Len(text)), chunkSize)

\* chunkText(text, metadata, {chunkSize}): [] for a blank text, else one chunk
\* per document of the splitter with chunkIndex its position in docs
chunkText(text, pageNumber, chunkSize) ==
  IF Trim(text) = <<>> THEN <<>>
  ELSE LET docs == SplitDocs(text, chunkSize)
       IN [index \in 1..Len(docs) |->
             [chunkIndex |-> index - 1, content |-> docs[index],
              pageNumber |-> pageNumber]]

\* the loop over metadata.pageTexts from page k on: allChunks.push(...pageChunks)
RECURSIVE ChunkPagesFrom(_, _, _)
ChunkPagesFrom(pageTexts, k, chunkSize) ==
  IF k > Len(pageTexts) THEN <<>>
  ELSE chunkText(pageTexts[k], k, chunkSize)
         \o ChunkPagesFrom(pageTexts, k + 1, chunkSize)

\* chunkByPages(pdfData, options): page by page when the parser gave
\* metadata.pageTexts, else chunkText on the whole text (page number 0: none)
chunkByPages(pdfData, chunkSize) ==
  IF pdfData.hasPageTexts
  THEN ChunkPagesFrom(pdfData.pageTexts, 1, chunkSize)
  ELSE chunkText(pdfData.text, 0, chunkSize)

\* the chunker before it is called
IdleCk ==
  [pc |-> "idle", fn |-> "", chunkSize |-> 0,
   pdfData |-> [text |-> <<>>, hasPageTexts |-> FALSE, pageTexts |-> <<>>],
   result |-> <<>>]

\* one call of chunkText or chunkByPages; the splitter may throw, which
\* chunkText rethrows
CkCall ==
  /\ ck.pc = "start"
  /\ \E splitterOk \in BOOLEAN :
       LET blank == Trim(ck.pdfData.text) = <<>>
       IN IF ~splitterOk /\ ~blank
          THEN ck' = [ck EXCEPT !.pc = "threw"]
          ELSE ck' = [ck EXCEPT
                 !.pc = "returned",
                 !.result = IF ck.fn = "chunkText"
                            THEN chunkText(ck.pdfData.text, 0, ck.chunkSize)
                            ELSE chunkByPages(ck.pdfData, ck.chunkSize)]
  /\ UNCHANGED ckRest

-----------------------------------------------------------------------------
(* Specification of rewriteQuery alone: one call, its two awaits as steps *)

\* the questions put to the rewriter: POST lets no blank message through
RewriteQueries ==
  { <<"a">>, <<" ", "a">>, <<"a", "he", "a">>, <<"1", ".">>,
    <<"a", " ", "o", "r", " ", "b">>, <<"a", "dui", "bi", "b">> }

\* embedText before it is called
IdleEt ==
  [pc |-> "idle", text |-> <<>>, error |-> "", requests |-> 0,
   vector |-> ZeroVector(0)]

\* searchSimilarChunks before it is called
IdleSs ==
  [pc |-> "idle", query |-> <<>>, pdfId |-> "", topK |-> 0, threshold |-> 0,
   queryVector |-> ZeroVector(0), results |-> <<>>]

\* the variables of a component that a specification leaves idle
EnvIdle == apiKey = TRUE /\ embeddingDim = 1024
RwIdle == rwQuery = <<>> /\ rwPc = "idle" /\ rwResult = NewRewriteResult(<<>>)
EbIdle ==
  /\ ebTexts = <<>> /\ ebBatchSize = 50 /\ ebPc = "idle"
  /\ ebResults = <<>> /\ ebRequests = <<>>
  /\ et = IdleEt
ChatIdle ==
  /\ pdfs = [p \in PdfIds |-> NoPdf] /\ chunks = {}
  /\ job = [p \in PdfIds |-> NoJob] /\ rq = IdleRq
SsIdle == ss = IdleSs
GenIdle == gen = IdleGen
ArIdle == ar = IdleAr
CkIdle == ck = IdleCk
SideIdle == GenIdle /\ ArIdle /\ CkIdle

RwInit ==
  /\ EnvIdle /\ EbIdle /\ ChatIdle /\ SsIdle /\ SideIdle
  /\ rwQuery \in RewriteQueries
  /\ rwPc = "start"
  /\ rwResult = NewRewriteResult(rwQuery)

RwNormalize ==
  /\ rwPc = "start"
  /\ \E o \in LlmOutcomes :
       /\ rwResult' = Normalization(rwResult, o)
       /\ rwPc' = IF o.kind = "throw" THEN "done" ELSE "stage2"
  /\ UNCHANGED <<rwQuery, envVars, ebVars, chatVars, ss, sideVars>>

RwStage2 ==
  /\ rwPc = "stage2"
  /\ \E o \in LlmOutcomes : rwResult' = Stage2(rwResult, o)
  /\ rwPc' = "done"
  /\ UNCHANGED <<rwQuery, envVars, ebVars, chatVars, ss, sideVars>>

RwNext == RwNormalize \/ RwStage2

SpecRewrite == RwInit /\ [][RwNext]_vars

-----------------------------------------------------------------------------
(* Specification of the embedder alone: one call, of embedBatch on any list of
   texts or of embedText on any text *)

EmbedTexts == { <<"a">>, <<"b">>, <<" ">> }

\* the texts embedText is called with: the above and the empty string
SingleTexts == EmbedTexts \cup { <<>> }

EbInit ==
  /\ RwIdle /\ ChatIdle /\ SsIdle /\ SideIdle
  /\ apiKey \in BOOLEAN
  /\ embeddingDim \in Dims
  /\ ebResults = <<>>
  /\ ebRequests = <<>>
  /\ \/ /\ ebTexts \in ListsUpTo(EmbedTexts, MaxTexts)
        /\ ebBatchSize \in {2, DEFAULT_BATCH_SIZE}
        /\ ebPc = "start"
        /\ et = IdleEt
     \/ /\ ebTexts = <<>>
        /\ ebBatchSize = DEFAULT_BATCH_SIZE
        /\ ebPc = "idle"
        /\ et \in { [IdleEt EXCEPT !.pc = "start", !.text = t] : t \in SingleTexts }

EbCall ==
  /\ ebPc = "start"
  /\ \E batchOut \in [1..NumBatches(Len(ebTexts), ebBatchSize) -> BatchOutcomes],
        itemOut \in [1..Len(ebTexts) -> EmbedOutcomes] :
       LET r == embedBatch(ebTexts, ebBatchSize, apiKey, embeddingDim, batchOut, itemOut)
       IN /\ ebPc' = IF r.threw THEN "threw" ELSE "returned"
          /\ ebResults' = r.results
          /\ ebRequests' = r.requests
  /\ UNCHANGED <<ebTexts, ebBatchSize, et, envVars, rwVars, chatVars, ss, sideVars>>

EtCall ==
  /\ et.pc = "start"
  /\ \E outcome \in EmbedOutcomes :
       LET r == embedText(et.text, apiKey, embeddingDim, outcome)
       IN et' = [et EXCEPT
                   !.pc = IF r.threw THEN "threw" ELSE "returned",
                   !.error = embedTextError(et.text, apiKey, outcome),
                   !.requests = IF embedTextIssues(et.text, apiKey) THEN 1 ELSE 0,
                   !.vector = r.vector]
  /\ UNCHANGED <<ebTexts, ebBatchSize, ebPc, ebResults, ebRequests,
                 envVars, rwVars, chatVars, ss, sideVars>>

EbNext == EbCall \/ EtCall

SpecEmbed == EbInit /\ [][EbNext]_vars

-----------------------------------------------------------------------------
(* Specification of searchSimilarChunks alone: one call on a library of two
   ingested documents *)

SearchPdfIds == {"p1", "p2"}

\* how a chunk came to be stored: with the embedding of its content, with the
\* zero vector embedBatch substituted, or through the ORM without a vector
StoredKinds ==
  { [content |-> <<"a">>, kind |-> "embedded"],
    [content |-> <<"b">>, kind |-> "embedded"],
    [content |-> <<"he">>, kind |-> "embedded"],
    [content |-> <<"a">>, kind |-> "zero"],
    [content |-> <<"a">>, kind |-> "none"] }

\* the row of chunk i (from 0) of document p, as the insert loop writes it
StoredRow(p, i, k) ==
  LET vector == IF k.kind = "embedded" THEN Embedding(k.content, VECTOR_DIMENSION)
                ELSE IF k.kind = "zero" THEN ZeroVector(ZERO_FILL_DIMENSION)
                ELSE ZeroVector(0)
  IN [pdfId |-> p, chunkIndex |-> i, content |-> k.content,
      hasEmbedding |-> vector.dim > 0, embedding |-> vector]

StoredRows(p, doc) == { StoredRow(p, i - 1, doc[i]) : i \in 1..Len(doc) }

ReadyPdf(n) ==
  [exists |-> TRUE, status |-> "ready", totalChunks |-> n, errorMessage |-> ""]

\* the documents of the other owner of rows: none, or one chunk close to "b"
OtherDocs == { <<>>, <<[content |-> <<"b">>, kind |-> "embedded"]>> }

SsInit ==
  /\ EnvIdle /\ RwIdle /\ EbIdle /\ SideIdle
  /\ rq = IdleRq
  /\ \E doc1 \in ListsUpTo(StoredKinds, MaxRows), doc2 \in OtherDocs :
       /\ chunks = StoredRows("p1", doc1) \cup StoredRows("p2", doc2)
       /\ pdfs = [p \in SearchPdfIds |->
                    ReadyPdf(IF p = "p1" THEN Len(doc1) ELSE Len(doc2))]
  /\ job = [p \in SearchPdfIds |-> [NoJob EXCEPT !.pc = "end"]]
  /\ ss \in { [IdleSs EXCEPT !.pc = "start", !.query = q, !.pdfId = p,
                              !.topK = k, !.threshold = t] :
                q \in { <<"a">>, <<"b">> }, p \in {"", "p1"},
                k \in {1, 2}, t \in {SIM_RELAXED, SIM_STANDARD} }

SsCall ==
  /\ ss.pc = "start"
  /\ \E eo \in EmbedOutcomes, dbOk \in BOOLEAN :
       \E r \in searchSimilarChunks(chunks, ss.query, ss.pdfId, ss.topK,
                                    ss.threshold, apiKey, embeddingDim, eo, dbOk) :
         ss' = [ss EXCEPT !.pc = IF r.threw THEN "threw" ELSE "returned",
                          !.queryVector = r.queryVector,
                          !.results = r.list]
  /\ UNCHANGED <<envVars, rwVars, ebVars, chatVars, sideVars>>

SsNext == SsCall

SpecSearch == SsInit /\ [][SsNext]_vars

-----------------------------------------------------------------------------
(* Specification of smartRetrieval over one ingested document of any size up
   to MaxDocChunks: a question that passed the gate and whose rewrite kept it
   as it was, served to its response *)

\* how many of the leading chunks of the document are about the question
CloseChunks == 0..2

\* two documents around the size from which the sampling step reaches the
\* 100 rows that strategy 3 reads
HugeDocs == {990, 991}

\* the rows of a document of n chunks whose inserts all succeeded; the first
\* close of them are about "a", the others about something unrelated
LargeDocRows(n, close) ==
  { StoredRow("p1", i, [content |-> IF i < close THEN <<"a">> ELSE <<"he">>,
                        kind |-> "embedded"]) : i \in 0..(n - 1) }

LdInit ==
  /\ EnvIdle /\ RwIdle /\ EbIdle /\ SsIdle /\ SideIdle
  /\ \E n \in (0..MaxDocChunks) \cup HugeDocs, close \in CloseChunks :
       /\ close <= n
       /\ n \in HugeDocs => close = 0
       /\ chunks = LargeDocRows(n, close)
       /\ pdfs = [p \in PdfIds |-> ReadyPdf(n)]
       /\ rq = [IdleRq EXCEPT !.pc = "search1",
                              !.message = <<"a">>,
                              !.pdfId = "p1",
                              !.pdfRecord = ReadyPdf(n),
                              !.finalQuery = <<"a">>,
                              !.calls = <<Call("rewriteQuery", <<"a">>, 0)>>]
  /\ job = [p \in PdfIds |-> [NoJob EXCEPT !.pc = "end"]]

LdNext ==
  \/ PostSearch1
  \/ PostSearch2
  \/ PostSample
  \/ PostFirstN
  \/ PostAnswer
  \/ PostEnd

SpecLargeDoc == LdInit /\ [][LdNext]_vars

-----------------------------------------------------------------------------
(* Specification of one streamed generation *)

StreamPaths == {"chat", "websearch"}

GenInit ==
  /\ EnvIdle /\ RwIdle /\ EbIdle /\ ChatIdle /\ SsIdle /\ ArIdle /\ CkIdle
  /\ gen \in { NewGeneration(path, n) : path \in StreamPaths, n \in 0..MaxTokens }

GenServer == SrvInit \/ SrvChunk \/ SrvFinish \/ SrvCancel

GenClient == CliRead \/ CliSave \/ CliCatch

GenNext ==
  \/ SrvInit
  \/ SrvChunk
  \/ SrvFinish
  \/ SrvCancel
  \/ CliRead
  \/ CliSave
  \/ CliCatch
  \/ UserStop
  \/ NewSendAborts
  \/ ClientDisconnect

SpecStream == GenInit /\ [][GenNext]_vars

\* the server's stream callback and the client's handler run to their end;
\* stopping, sending again and going away are up to the user
FairSpecStream ==
  /\ GenInit /\ [][GenNext]_vars
  /\ WF_vars(GenServer)
  /\ WF_vars(GenClient)

-----------------------------------------------------------------------------
(* Specification of one request to a route handler *)

\* the endpoints whose path names a conversation
PathEndpoints ==
  { "PATCH /api/conversations/:id", "DELETE /api/conversations/:id",
     "POST /api/conversations/:id/title",
     "GET /api/conversations/:id/messages",
     "POST /api/conversations/:id/messages" }

\* the endpoints whose body or query may name a PDF or a conversation
BodyEndpoints ==
  { "GET /api/pdf/status", "POST /api/pdf/chat", "POST /api/chat-pdf",
     "POST /api/chat-web-search" }

\* the endpoints that name no conversation and no PDF
PlainEndpoints ==
  { "POST /api/chat", "GET /api/test", "GET /api/files/:path",
     "GET /api/pdf/upload", "POST /api/pdf/upload", "POST /api/pdf/status",
     "GET /api/pdf/list", "GET /api/conversations", "POST /api/conversations",
     "GET /api/user/profile", "PATCH /api/user/profile" }

ApiRequests ==
  { r \in [endpoint : PathEndpoints \cup BodyEndpoints \cup PlainEndpoints,
           session : Sessions, target : Targets, valid : BOOLEAN] :
      /\ r.endpoint \in PathEndpoints => r.target # "unnamed"
      /\ r.endpoint \in PlainEndpoints => r.target = "unnamed" }

ApiInit ==
  /\ EnvIdle /\ RwIdle /\ EbIdle /\ ChatIdle /\ SsIdle /\ GenIdle /\ CkIdle
  /\ ar \in { [IdleAr EXCEPT !.pc = "received", !.req = r] : r \in ApiRequests }

ApiNext ==
  \/ Serve_POST_chat
  \/ Serve_GET_test
  \/ Serve_GET_files
  \/ Serve_GET_pdf_upload
  \/ Serve_POST_pdf_upload
  \/ Serve_POST_pdf_status
  \/ Serve_GET_pdf_status
  \/ Serve_GET_pdf_list
  \/ Serve_POST_pdf_chat
  \/ Serve_POST_chat_pdf
  \/ Serve_POST_chat_web_search
  \/ Serve_PATCH_conversation
  \/ Serve_DELETE_conversation
  \/ Serve_POST_conversation_title
  \/ Serve_GET_conversation_messages
  \/ Serve_POST_conversation_messages
  \/ Serve_GET_conversations
  \/ Serve_POST_conversations
  \/ Serve_GET_user_profile
  \/ Serve_PATCH_user_profile

SpecApi == ApiInit /\ [][ApiNext]_vars

-----------------------------------------------------------------------------
(* Specification of the chunker alone: one call *)

RECURSIVE Flatten(_)
Flatten(pages) == IF pages = <<>> THEN <<>> ELSE Head(pages) \o Flatten(Tail(pages))

\* the texts of a page
PageTexts == ListsUpTo({"a", " "}, MaxPageLen)

\* what pdf-parse hands over: the whole text, with or without the page texts
PdfDatas ==
  { [text |-> Flatten(pages), hasPageTexts |-> h,
     pageTexts |-> IF h THEN pages ELSE <<>>] :
      pages \in ListsUpTo(PageTexts, MaxPages), h \in BOOLEAN }

CkInit ==
  /\ EnvIdle /\ RwIdle /\ EbIdle /\ ChatIdle /\ SsIdle /\ GenIdle /\ ArIdle
  /\ ck \in { [IdleCk EXCEPT !.pc = "start", !.fn = f, !.chunkSize = size,
                             !.pdfData = d] :
                f \in {"chunkText", "chunkByPages"}, size \in {1, 2},
                d \in PdfDatas }

CkNext == CkCall

SpecChunker == CkInit /\ [][CkNext]_vars


-----------------------------------------------------------------------------
(* Specification of the question-answering service: uploads, their ingestion
   jobs and one question at a time, in any interleaving *)

Init ==
  /\ RwIdle /\ EbIdle /\ SsIdle /\ SideIdle
  /\ apiKey \in BOOLEAN
  /\ embeddingDim \in Dims
  /\ pdfs = [p \in PdfIds |-> NoPdf]
  /\ chunks = {}
  /\ job = [p \in PdfIds |-> NoJob]
  /\ rq = IdleRq

Next ==
  \/ \E p \in PdfIds : Upload(p)
  \/ \E p \in PdfIds : UploadByUrl(p)
  \/ \E p \in PdfIds : IngestPrepare(p)
  \/ \E p \in PdfIds : IngestInsert(p)
  \/ \E p \in PdfIds : IngestReady(p)
  \/ \E p \in PdfIds : IngestCatch(p)
  \/ PostBegin
  \/ PostRewrite
  \/ PostSearch1
  \/ PostSearch2
  \/ PostSample
  \/ PostFirstN
  \/ PostAnswer
  \/ PostEnd

Spec == Init /\ [][Next]_vars

-----------------------------------------------------------------------------
(* Specification of ingestion alone, with its background job scheduled fairly *)

\* the steps of the background job of document p
IngestJob(p) == IngestPrepare(p) \/ IngestInsert(p) \/ IngestReady(p) \/ IngestCatch(p)

IngestNext ==
  \/ \E p \in PdfIds : Upload(p)
  \/ \E p \in PdfIds : UploadByUrl(p)
  \/ \E p \in PdfIds : IngestPrepare(p)
  \/ \E p \in PdfIds : IngestInsert(p)
  \/ \E p \in PdfIds : IngestReady(p)
  \/ \E p \in PdfIds : IngestCatch(p)

SpecIngest == Init /\ [][IngestNext]_vars

\* a job that was started runs to its end: every await of it settles
FairSpecIngest ==
  /\ Init /\ [][IngestNext]_vars
  /\ \A p \in PdfIds : WF_vars(IngestJob(p))

-----------------------------------------------------------------------------
(* Specification of the insert loop on documents long enough for the sixth
   failed insert: the job of a document of up to ManyChunks chunks, taken up
   where parsing, chunking and embedBatch are over *)

\* a document of n chunks
UniformTexts(n) == [i \in 1..n |-> <<"a">>]

\* the job after steps 1 to 3 on the texts, or in its catch block if
\* embedBatch threw
PreparedJob(texts, batchOut, itemOut) ==
  LET r == embedBatch(texts, DEFAULT_BATCH_SIZE, apiKey, embeddingDim,
                      [b \in 1..NumBatches(Len(texts), DEFAULT_BATCH_SIZE) |-> batchOut],
                      [i \in 1..Len(texts) |-> itemOut])
  IN IF r.threw
     THEN [NoJob EXCEPT !.pc = "catch", !.error = "OPENAI_API_KEY not configured"]
     ELSE [NoJob EXCEPT !.pc = "insert",
                        !.texts = texts,
                        !.vectors = r.results,
                        !.actualDimension = ActualDimension(r.results)]

LoopInit ==
  /\ RwIdle /\ EbIdle /\ SsIdle /\ SideIdle
  /\ apiKey \in BOOLEAN
  /\ embeddingDim \in Dims
  /\ pdfs = [p \in PdfIds |->
       [exists |-> TRUE, status |-> "processing", totalChunks |-> 0,
        errorMessage |-> ""]]
  /\ chunks = {}
  /\ rq = IdleRq
  /\ \/ \E why \in {"pdf parse failed", "chunking failed"} :
          job = [p \in PdfIds |-> [NoJob EXCEPT !.pc = "catch", !.error = why]]
     \/ \E n \in 0..ManyChunks, batchOut \in BatchOutcomes, itemOut \in {"ok", "fail"} :
          job = [p \in PdfIds |-> PreparedJob(UniformTexts(n), batchOut, itemOut)]

LoopNext ==
  \/ \E p \in PdfIds : IngestInsert(p)
  \/ \E p \in PdfIds : IngestReady(p)
  \/ \E p \in PdfIds : IngestCatch(p)

SpecInsertLoop == LoopInit /\ [][LoopNext]_vars

-----------------------------------------------------------------------------
(* Claims about the question-answering service, checked under Spec *)

\* the document the request names has a row in document_chunks
HasStoredChunk == \E c \in chunks : c.pdfId = rq.pdfId

\* the calls of the request that start a retrieval strategy: each vector
\* strategy starts with embedText, each fallback read is one findMany
StrategyCalls == { k \in 1..Len(rq.calls) : rq.calls[k].op \in {"embedText", "findMany"} }

\* C1: for a 'ready' document with at least one stored chunk, whenever
\* smartRetrieval returns normally the list it returns holds at least one chunk.
C1_NonEmptyGuarantee ==
  (rq.retrieval = "returned" /\ rq.pdfRecord.status = "ready" /\ HasStoredChunk)
    => Len(rq.relevantChunks) >= 1

\* both vector searches found nothing and the fallback still returned chunks
C1_Witness ==
  /\ rq.retrieval = "returned"
  /\ HasStoredChunk
  /\ Len(rq.outs) = 3
  /\ rq.outs[1].chunks = <<>>
  /\ rq.outs[2].chunks = <<>>
  /\ Len(rq.relevantChunks) >= 1

\* C2: once a strategy has returned 3 or more chunks, no later strategy is
\* invoked and the list returned to the caller is exactly that strategy's output.
C2_EscalationMonotonic ==
  \A i \in 1..Len(rq.outs) :
    Len(rq.outs[i].chunks) >= ENOUGH_CHUNKS =>
      /\ i = Len(rq.outs)
      /\ Cardinality(StrategyCalls) = i
      /\ rq.outs[i].strategy = i
      /\ rq.retrieval = "returned"
      /\ rq.relevantChunks = rq.outs[i].chunks

\* the standard search fell short, the relaxed search met the bar and was returned
C2_Witness ==
  /\ Len(rq.outs) = 2
  /\ Len(rq.outs[1].chunks) < ENOUGH_CHUNKS
  /\ Len(rq.outs[2].chunks) >= ENOUGH_CHUNKS
  /\ rq.pc = "answer"

\* C3: rewriteQuery runs exactly once per smartRetrieval call, before any
\* strategy, and the finalQuery of that one rewrite is the query of both the
\* threshold-0.6 and the threshold-0.4 vector search.
C3_RewriteOnceAndReused ==
  /\ Cardinality({ k \in 1..Len(rq.calls) : rq.calls[k].op = "rewriteQuery" }) <= 1
  /\ rq.calls # <<>> => rq.calls[1].op = "rewriteQuery"
  /\ \A k \in 1..Len(rq.calls) :
       rq.calls[k].op \in {"embedText", "vectorQuery"} =>
         rq.calls[k].query = rq.finalQuery

\* both searches ran on a query that the rewrite changed
C3_Witness ==
  /\ rq.finalQuery # rq.message
  /\ \E k \in 1..Len(rq.calls) :
       rq.calls[k].op = "vectorQuery" /\ rq.calls[k].n = SIM_STANDARD
  /\ \E k \in 1..Len(rq.calls) :
       rq.calls[k].op = "vectorQuery" /\ rq.calls[k].n = SIM_RELAXED

\* C4: when the embedding call or the vector query of strategy 1 or 2 fails,
\* the request ends with the retrieval-unavailable error, and neither a
\* fallback read nor the answer-generation call is made for it.
C4_RetrievalFailureNotDegraded ==
  rq.threwAt \in {1, 2} =>
    /\ rq.pc = "done"
    /\ rq.response = Response(500, "retrieval unavailable", "")
    /\ \A k \in 1..Len(rq.calls) : rq.calls[k].op \notin {"findMany", "answerLLM"}

\* the relaxed search failed after the standard one had fallen short
C4_Witness ==
  /\ rq.threwAt = 2
  /\ Len(rq.outs) = 1
  /\ rq.response.error = "retrieval unavailable"

\* C5: a question against a 'ready' document that has no stored chunk ends in
\* an error response: the answer model is never called with an empty context
\* and no success answer is returned.
C5_EmptyDocumentIsError ==
  (rq.pdfRecord.exists /\ rq.pdfRecord.status = "ready" /\ ~HasStoredChunk) =>
    /\ rq.response.status # 200
    /\ \A k \in 1..Len(rq.calls) : rq.calls[k].op # "answerLLM"

\* C6: a question whose document is not 'ready' when it is looked up is
\* rejected with the message of its state before any rewriter, embedder,
\* vector-store or answer-model call; for 'failed' the stored errorMessage is
\* part of the response.
C6_DocumentStateGate ==
  (rq.pdfRecord.exists /\ rq.pdfRecord.status # "ready") =>
    /\ rq.pc = "done"
    /\ rq.calls = <<>>
    /\ rq.retrieval = "none"
    /\ rq.response.status = 400
    /\ rq.response.error =
         IF rq.pdfRecord.status = "processing" THEN "pdf is processing"
         ELSE IF rq.pdfRecord.status = "failed" THEN "pdf processing failed"
         ELSE "pdf status abnormal"
    /\ rq.pdfRecord.status = "failed" =>
         rq.response.details = rq.pdfRecord.errorMessage

\* a question against a document whose ingestion failed for want of a credential
C6_Witness ==
  /\ rq.pdfRecord.exists
  /\ rq.pdfRecord.status = "failed"
  /\ rq.response.details = "OPENAI_API_KEY not configured"

\* C15: a document is created 'processing'; its row changes only from
\* 'processing' to 'ready' or to 'failed', in a step with which its ingestion
\* job ends; the row of a 'ready' or 'failed' document never changes again.
C15_StatusLifecycle ==
  [][\A p \in PdfIds :
       /\ (~pdfs[p].exists /\ pdfs'[p].exists) => pdfs'[p].status = "processing"
       /\ (pdfs[p].exists /\ pdfs'[p] # pdfs[p]) =>
            /\ pdfs[p].status = "processing"
            /\ pdfs'[p].status \in {"ready", "failed"}
            /\ job[p].pc \in {"insert", "catch"}
            /\ job'[p].pc = "end"
       /\ pdfs[p].status \in {"ready", "failed"} => pdfs'[p] = pdfs[p]]_vars

\* a document whose ingestion failed, with a question answered after that
C15_Witness ==
  /\ pdfs["p1"].status = "failed"
  /\ job["p1"].pc = "end"
  /\ rq.pc = "done"
  /\ rq.pdfRecord.status = "failed"

\* the rows stored for document p
RowsOf(p) == { c \in chunks : c.pdfId = p }

\* the request has passed the state gate and smartRetrieval is not over
PastGate ==
  /\ rq.pc \in {"rewrite", "search1", "search2", "sample", "firstN"}
  /\ rq.pdfRecord.status = "ready"

\* C24: once a document is 'ready' no step inserts, changes or removes a chunk
\* row of it, and while a question that passed the state gate is being
\* served the chunk rows of its document stay the same, so all its
\* strategies read the same chunk set, whatever ingestion steps interleave.
C24_ChunksFrozenWhenReady ==
  [][/\ \A p \in PdfIds :
          pdfs[p].status = "ready" => RowsOf(p)' = RowsOf(p)
     /\ PastGate => /\ RowsOf(rq.pdfId)' = RowsOf(rq.pdfId)
                    /\ pdfs[rq.pdfId].status = "ready"]_vars

\* a question past the gate whose two vector searches have run on a 'ready'
\* document with stored chunks, the fallback read still to come
C24_Witness ==
  /\ PastGate
  /\ rq.pc = "sample"
  /\ Len(rq.outs) = 2
  /\ pdfs[rq.pdfId].status = "ready"
  /\ Cardinality(RowsOf(rq.pdfId)) >= 2

\* C16: a 'ready' document has totalChunks equal to the number of chunk rows
\* stored for it, whatever inserts failed and whatever embeddings were
\* replaced by zero vectors.
C16_TotalChunksIsStoredCount ==
  \A p \in PdfIds :
    pdfs[p].status = "ready" => pdfs[p].totalChunks = Cardinality(RowsOf(p))

\* a 'ready' document with a zero-vector row and a skipped chunk index, the
\* mark of an insert that failed
C16_Witness ==
  /\ pdfs["p1"].status = "ready"
  /\ pdfs["p1"].totalChunks >= 1
  /\ \E c \in RowsOf("p1") : c.embedding.zero /\ c.hasEmbedding
  /\ \E c \in RowsOf("p1") : c.chunkIndex >= pdfs["p1"].totalChunks

\* C17: the chunk indices stored for a 'ready' document are exactly
\* 0, 1, ..., totalChunks - 1.
C17_ChunkIndexContiguous ==
  \A p \in PdfIds :
    pdfs[p].status = "ready" =>
      { c.chunkIndex : c \in RowsOf(p) } = 0..(pdfs[p].totalChunks - 1)

\* the reads of strategy 3 and of strategy 4 in the call log
SampleReads == { k \in 1..Len(rq.calls) : rq.calls[k] = Call("findMany", <<>>, SAMPLE_SCAN) }
FirstNReads == { k \in 1..Len(rq.calls) : rq.calls[k] = Call("findMany", <<>>, FALLBACK_TAKE) }

\* C18: strategy 4 reads only after uniform sampling yielded no chunk; when
\* sampling yields one chunk or more, smartRetrieval returns the sample and
\* the sampling read is the last query of the retrieval.
C18_FirstNOnlyAfterEmptySample ==
  /\ FirstNReads # {} =>
       /\ Len(rq.outs) >= 3
       /\ rq.outs[3].strategy = 3
       /\ rq.outs[3].chunks = <<>>
  /\ (Len(rq.outs) >= 3 /\ rq.outs[3].chunks # <<>>) =>
       /\ Len(rq.outs) = 3
       /\ rq.retrieval = "returned"
       /\ rq.relevantChunks = rq.outs[3].chunks
       /\ FirstNReads = {}
       /\ \A k \in StrategyCalls : \A j \in SampleReads : k <= j

\* sampling yielded fewer than three chunks and the answer was built on them
C18_Witness ==
  /\ Len(rq.outs) = 3
  /\ Len(rq.outs[3].chunks) \in {1, 2}
  /\ rq.response.status = 200
  /\ rq.response.chunksRetrieved = Len(rq.outs[3].chunks)

\* every chunk of the list carries a similarity score of at least threshold
AllScoredFrom(list, threshold) ==
  \A k \in 1..Len(list) : list[k].scored /\ list[k].similarity >= threshold

\* no chunk of the list carries a similarity score
NoneScored(list) == \A k \in 1..Len(list) : ~list[k].scored

C27_IngestionLiveness ==
  \A p \in PdfIds :
    (pdfs[p].exists /\ pdfs[p].status = "processing")
      ~> (pdfs[p].status \in {"ready", "failed"})

\* the job is over and the row still says 'processing': the update of the
\* catch block failed as well
C27_StuckAfterJobEnd ==
  /\ pdfs["p1"].exists
  /\ pdfs["p1"].status = "processing"
  /\ job["p1"].pc = "end"

\* a row created by the upload by URL: 'processing' and no job at all
C27_StuckWithoutJob ==
  /\ pdfs["p1"].exists
  /\ pdfs["p1"].status = "processing"
  /\ job["p1"].pc = "none"

-----------------------------------------------------------------------------
(* Claims about rewriteQuery, checked under SpecRewrite *)

\* the normalization call failed: non-OK status, empty content, or it threw
\* (then "rewrite failed" is the only step recorded)
NormalizationFailed(r) ==
  /\ r.steps # <<>>
  /\ r.steps[1] \in {"normalization failed", "normalization empty", "rewrite failed"}

\* C7: for every non-blank original query and every outcome of the rewriter's
\* LLM calls, the finalQuery that rewriteQuery returns is a non-empty,
\* non-blank string, one that embedText accepts.
C7_FinalQueryAlwaysUsable ==
  rwPc = "done" => EmbedAccepts(rwResult.finalQuery)

\* C8 as stated: whenever the normalization call fails (non-OK, empty content
\* or thrown), the returned finalQuery is the original query and queryType is
\* 'fallback'.
C8_NormalizationFailureIsFallback ==
  (rwPc = "done" /\ NormalizationFailed(rwResult)) =>
     /\ rwResult.finalQuery = rwResult.originalQuery
     /\ rwResult.queryType = "fallback"

\* C8 amended: a normalization call that throws ends the rewrite with the
\* original query and queryType 'fallback'; one that fails by a non-OK status
\* or empty content is recorded in steps and stage 2 runs on the original
\* query: queryType is the branch the original query selects, or 'fallback'
\* exactly when the stage-2 call throws, and finalQuery is the original query
\* unless stage 2 returned non-empty content.
C8_NormalizationDegradation ==
  (rwPc = "done" /\ NormalizationFailed(rwResult)) =>
     LET r == rwResult
         branch == IF isCompoundQuery(r.originalQuery)
                   THEN "decomposition" ELSE "expansion"
     IN /\ r.steps[1] = "rewrite failed" =>
             /\ r.finalQuery = r.originalQuery
             /\ r.queryType = "fallback"
             /\ r.llmCalls = <<"normalization">>
        /\ r.steps[1] # "rewrite failed" =>
             /\ r.llmCalls = <<"normalization", branch>>
             /\ r.queryType \in {branch, "fallback"}
             /\ (r.queryType = "fallback") <=> r.error
             /\ Len(r.steps) = 3 => r.finalQuery = r.originalQuery

\* a non-OK normalization after which the expansion succeeded: the result is
\* on the normal path with a rewritten query
C8_Witness ==
  /\ rwPc = "done"
  /\ rwResult.steps = <<"normalization failed", "use expansion">>
  /\ rwResult.queryType = "expansion"
  /\ rwResult.finalQuery # rwResult.originalQuery

\* C19: a normalization call that fails in any way (non-OK status, empty
\* content, or a throw) leaves a record in steps and is followed by stage 2:
\* exactly one more LLM call, the decomposition or the expansion that the
\* original query selects.
C19_NormalizationFailureKeepsStage2 ==
  (rwPc = "done" /\ NormalizationFailed(rwResult)) =>
     /\ Len(rwResult.llmCalls) = 2
     /\ rwResult.llmCalls[2] =
          IF isCompoundQuery(rwResult.originalQuery)
          THEN "decomposition" ELSE "expansion"

\* the compound markers that the specification names, letter by letter
NamedMarkers ==
  { <<"a", "n", "d">>, <<"o", "r">>, <<"v", "e", "r", "s", "u", "s">>,
    <<"c", "o", "m", "p", "a", "r", "e">>,
    <<"d", "i", "f", "f", "e", "r", "e", "n", "c", "e">>, <<"dui", "bi">> }

ContainsNamedMarker(q) ==
  \E m \in NamedMarkers :
    \E i \in 1..Len(q) :
      /\ i + Len(m) - 1 <= Len(q)
      /\ SubSeq(q, i, i + Len(m) - 1) = m

\* the query that stage 2 inspects: the normalized one, or the original one
\* when normalization gave none
AnalysedQuery(r) ==
  IF r.normalizedQuery # <<>> THEN r.normalizedQuery ELSE r.originalQuery

\* C20: when no call throws, rewriteQuery returns queryType 'decomposition'
\* if the query it inspected contains one of the named markers, and
\* 'expansion' if it contains none.
C20_CompoundDetection ==
  (rwPc = "done" /\ ~rwResult.error) =>
     rwResult.queryType =
       IF ContainsNamedMarker(AnalysedQuery(rwResult))
       THEN "decomposition" ELSE "expansion"

-----------------------------------------------------------------------------
(* Claims about embedBatch, checked under SpecEmbed *)

\* C9: with a credential configured embedBatch returns exactly texts.length
\* entries, and entry i is the embedding of texts[i] or a zero vector,
\* whatever batch and item requests fail.
C9_BatchLengthAndOrder ==
  ebPc = "returned" =>
    /\ Len(ebResults) = Len(ebTexts)
    /\ \A i \in 1..Len(ebResults) :
         ebResults[i].zero \/ ebResults[i] = Embedding(ebTexts[i], embeddingDim)

\* three texts in batches of two: the first batch failed and its second item
\* failed again on retry, the first item and the second batch did not
C9_Witness ==
  /\ ebPc = "returned"
  /\ ebBatchSize = 2
  /\ Len(ebTexts) = 3
  /\ Len(ebResults) = 3
  /\ ~ebResults[1].zero
  /\ ebResults[2].zero
  /\ ~ebResults[3].zero
  /\ ebRequests = << <<"batch", 1, "api error">>, <<"retry", 1>>, <<"item", 1>>,
                     <<"retry", 2>>, <<"item", 2>>, <<"batch", 2, "ok">> >>

\* the indices in texts of the items of batch k
BatchItems(k) ==
  { i \in 1..Len(ebTexts) : (i - 1) \div ebBatchSize = k - 1 }

\* the log positions of the entries of one kind
LogPositions(kind) == { p \in 1..Len(ebRequests) : ebRequests[p][1] = kind }

\* the log positions that belong to batch k: its request and its retries
BatchPositions(k) ==
  { p \in 1..Len(ebRequests) :
      \/ ebRequests[p][1] = "batch" /\ ebRequests[p][2] = k
      \/ ebRequests[p][1] # "batch" /\ ebRequests[p][2] \in BatchItems(k) }

\* C23: embedBatch works through the batches one after the other in input
\* order: each batch is requested exactly once, everything logged for batch
\* k precedes everything logged for batch k+1, a batch that succeeded has no
\* retry and no item request, and a batch that failed is followed by exactly
\* one retry per item, in input order, each issuing at most one request.
C23_SequentialBatchesAndRetries ==
  ebPc = "returned" =>
    LET n == NumBatches(Len(ebTexts), ebBatchSize)
    IN /\ \A k \in 1..n :
            /\ Cardinality({ p \in LogPositions("batch") : ebRequests[p][2] = k }) = 1
            /\ \A p \in BatchPositions(k), q \in BatchPositions(k + 1) : p < q
            /\ \A p \in BatchPositions(k) :
                 ebRequests[p][1] = "batch" => \A q \in BatchPositions(k) : p <= q
       /\ \A p \in LogPositions("batch") :
            LET k == ebRequests[p][2]
                retries == { q \in LogPositions("retry") : ebRequests[q][2] \in BatchItems(k) }
            IN /\ k \in 1..n
               /\ IF ebRequests[p][3] = "ok"
                  THEN BatchPositions(k) = {p}
                  ELSE /\ \A i \in BatchItems(k) :
                            Cardinality({ q \in retries : ebRequests[q][2] = i }) = 1
                       /\ \A q1, q2 \in retries :
                            q1 < q2 => ebRequests[q1][2] < ebRequests[q2][2]
       /\ \A p \in LogPositions("item") :
            /\ p > 1
            /\ ebRequests[p - 1] = <<"retry", ebRequests[p][2]>>

\* two batches: the first failed and both its items were retried, one
\* request each, before the second batch was requested and succeeded
C23_Witness ==
  /\ ebPc = "returned"
  /\ ebBatchSize = 2
  /\ Len(ebTexts) = 3
  /\ Len(ebRequests) = 6
  /\ ebRequests[1] = <<"batch", 1, "count mismatch">>
  /\ ebRequests[2] = <<"retry", 1>>
  /\ ebRequests[4] = <<"retry", 2>>
  /\ ebRequests[6] = <<"batch", 2, "ok">>

\* C10: all vectors of one embedBatch result have the same dimension: a zero
\* vector substituted for a failed item has the dimension of the embeddings
\* the provider returned, whatever the dimension of the configured model.
C10_UniformDimension ==
  ebPc = "returned" =>
    \A i, j \in 1..Len(ebResults) : ebResults[i].dim = ebResults[j].dim

\* C11: when no API credential is configured, every call of embedText and of
\* embedBatch, whatever its input (the empty list included), fails with the
\* configuration error and issues no provider request, and embedBatch returns
\* no result (so no zero vector) in that case.
C11_MissingCredentialIsFatal ==
  ~apiKey =>
    /\ ebPc \in {"returned", "threw"} =>
          /\ ebPc = "threw"
          /\ ebRequests = <<>>
          /\ ebResults = <<>>
    /\ et.pc \in {"returned", "threw"} =>
          /\ et.pc = "threw"
          /\ et.error = "OPENAI_API_KEY not configured"
          /\ et.requests = 0

-----------------------------------------------------------------------------
(* Claims about searchSimilarChunks, checked under SpecSearch *)

\* the stored rows the claim speaks of: of the document asked for (of any
\* document when none is asked for), with an embedding, and with a cosine
\* similarity to the query vector that is at least the threshold
SsEligible ==
  { c \in chunks :
      /\ ss.pdfId # "" => c.pdfId = ss.pdfId
      /\ c.hasEmbedding
      /\ ~IsNaNSimilarity(ss.queryVector, c.embedding)
      /\ Similarity(ss.queryVector, c.embedding) >= ss.threshold }

\* the result entry l is the stored row c with its similarity
SsIsRow(l, c) ==
  /\ l.pdfId = c.pdfId /\ l.chunkIndex = c.chunkIndex /\ l.content = c.content
  /\ l.similarity = Similarity(ss.queryVector, c.embedding)

-----------------------------------------------------------------------------
(* Claims about the fallback strategies, checked under SpecLargeDoc *)

\* the rows stored for the document of the request
DocRows == { c \in chunks : c.pdfId = rq.pdfId }

\* the row at chunk index i of the document of the request
DocRowAt(i) == CHOOSE c \in DocRows : c.chunkIndex = i

\* max(1, ceil(n / 10))
CeilTenth(n) == IF n <= 10 THEN 1 ELSE (n + 9) \div 10

\* C13: over a document of N stored chunks, strategy 3 yields the chunks at
\* the indices 0, s, 2s, ... below N of the whole document, s = max(1,
\* ceil(N/10)), in ascending order and at most 10 of them.
C13_UniformSampleSpansDocument ==
  Len(rq.outs) >= 3 =>
    LET N == Cardinality(DocRows)
        s == CeilTenth(N)
        count == Min(10, (N + s - 1) \div s)
    IN rq.outs[3].chunks = [k \in 1..count |-> Unscored(DocRowAt((k - 1) * s))]

\* C14: for a 'ready' document of n stored chunks, 1 <= n <= 10, when both
\* vector searches returned fewer than 3 chunks and smartRetrieval returns,
\* it returns every chunk of the document once, by ascending chunk index.
C14_SparseDocumentFallback ==
  ( /\ rq.retrieval = "returned"
    /\ rq.pdfRecord.status = "ready"
    /\ Cardinality(DocRows) \in 1..10
    /\ Len(rq.outs) >= 2
    /\ Len(rq.outs[1].chunks) < 3
    /\ Len(rq.outs[2].chunks) < 3 ) =>
    LET l == rq.relevantChunks
    IN /\ Len(l) = Cardinality(DocRows)
       /\ \A k \in 1..Len(l) : \E c \in DocRows : l[k] = Unscored(c)
       /\ \A j, k \in 1..Len(l) : j < k => l[j].chunkIndex < l[k].chunkIndex

\* a document of exactly 10 chunks, two of them found by each vector search:
\* all 10 are returned
C14_Witness ==
  /\ rq.retrieval = "returned"
  /\ Cardinality(DocRows) = 10
  /\ Len(rq.outs) = 3
  /\ Len(rq.outs[1].chunks) = 2
  /\ Len(rq.outs[2].chunks) = 2
  /\ Len(rq.relevantChunks) = 10

\* the number of rows of the request's document that come before c in
\* chunk-index order
RankOf(c) == Cardinality({ d \in DocRows : d.chunkIndex < c.chunkIndex })

\* the sample of strategy 3 is drawn from the first 100 rows and has
\* min(10, ceil(min(N, 100) / s)) chunks, s = max(1, ceil(totalChunks / 10))
SampleFromFirstHundred(sample) ==
  LET N == Cardinality(DocRows)
      s == CeilTenth(rq.pdfRecord.totalChunks)
  IN /\ \A k \in 1..Len(sample) :
          \E c \in DocRows : sample[k] = Unscored(c) /\ RankOf(c) < SAMPLE_SCAN
     /\ Len(sample) = Min(SAMPLE_TARGET, (Min(N, SAMPLE_SCAN) + s - 1) \div s)

\* from 991 chunks on the sample is the first chunk alone
SampleOfHugeDocument(sample) ==
  rq.pdfRecord.totalChunks >= 991 => sample = << Unscored(DocRowAt(0)) >>

\* C28 as stated: the sample comes from the first 100 chunks with the count
\* above, so a document of more than 100 chunks gets fewer than 10 chunks
\* and one of 991 or more gets the first chunk only.
C28_SampleOfFirstHundred_AsStated ==
  Len(rq.outs) >= 3 =>
    LET sample == rq.outs[3].chunks
    IN /\ SampleFromFirstHundred(sample)
       /\ Cardinality(DocRows) > 100 => Len(sample) < 10
       /\ SampleOfHugeDocument(sample)

\* C28, amended: the sample comes from the first 100 chunks with the count
\* above, so a document of more than 110 chunks gets fewer than 10 chunks
\* (one of 101 to 110 chunks still gets 10) and one of 991 or more gets the
\* first chunk only.
C28_SampleOfFirstHundred ==
  Len(rq.outs) >= 3 =>
    LET sample == rq.outs[3].chunks
        N == Cardinality(DocRows)
    IN /\ SampleFromFirstHundred(sample)
       /\ N > 110 => Len(sample) < 10
       /\ N \in 101..110 => Len(sample) = 10
       /\ SampleOfHugeDocument(sample)

\* a document of 991 chunks: the sample is its first chunk
C28_Witness ==
  /\ Len(rq.outs) >= 3
  /\ Cardinality(DocRows) = 991
  /\ rq.pdfRecord.totalChunks = 991
  /\ Len(rq.outs[3].chunks) = 1
  /\ rq.outs[3].chunks[1].chunkIndex = 0

-----------------------------------------------------------------------------
(* Claims about streamed generation, checked under FairSpecStream *)

\* the generation was interrupted (stop, new send or disconnect) when the
\* client had accumulated at least one content token
InterruptedWithOutput ==
  gen.interrupted # "none" /\ gen.accAtInterrupt >= 1

\* C21: when generation is interrupted after at least one content token was
\* accumulated, the partial content is eventually stored in the assistant
\* message row (unless the write that carries it failed) instead of the row
\* staying empty.
C21_PartialOutputPersisted ==
  InterruptedWithOutput ~> (gen.content.len >= 1 \/ gen.writeFailed)

\* the user's stop does save the partial content with the stop mark
C21_StopSavesPartial ==
  /\ gen.interrupted = "stop"
  /\ gen.cpc = "done"
  /\ gen.content = [len |-> gen.accAtInterrupt, mark |-> "stopped"]
  /\ gen.accAtInterrupt >= 1

\* the web-search route ended without a save: the client went away with a
\* token on screen, the next enqueue failed, and the row is still empty
C21_DisconnectLeavesEmpty ==
  /\ gen.path = "websearch"
  /\ gen.interrupted = "disconnect"
  /\ gen.accAtInterrupt >= 1
  /\ gen.spc = "closed"
  /\ gen.fullResponse >= 1
  /\ gen.content = EmptyContent
  /\ ~gen.writeFailed

-----------------------------------------------------------------------------
(* Claims about the route handlers, checked under SpecApi *)

\* the handler looked the row up and did nothing else
OnlyLookedUp == \A k \in 1..Len(ar.log) : ar.log[k] = "lookup"

\* C22: a request without a session is rejected before any data is read or
\* any model is called, and a request that names a conversation or PDF of
\* another user is rejected without that row being returned or used.
C22_CallerVerifiedFirst ==
  ar.pc = "done" =>
    /\ ar.req.session = "none" => (ar.status >= 400 /\ ar.log = <<>>)
    /\ (ar.req.session # "none" /\ ar.req.target \in {"u1", "u2"} \ {ar.req.session})
         => (ar.status >= 400 /\ OnlyLookedUp)

\* POST /api/chat served a caller without a session and called the model
C22_ChatWithoutSession ==
  /\ ar.pc = "done"
  /\ ar.req.endpoint = "POST /api/chat"
  /\ ar.req.session = "none"
  /\ ar.status = 200
  /\ ar.log = <<"model">>

-----------------------------------------------------------------------------
(* Claims about the chunker, checked under SpecChunker *)

\* C25: the k-th chunk (from 0) of the sequence chunkText or chunkByPages
\* returns has chunkIndex k, also for an input of several pages.
C25_ChunkIndexIsPosition ==
  ck.pc = "returned" =>
    \A k \in 1..Len(ck.result) : ck.result[k].chunkIndex = k - 1

\* chunkByPages returned the chunks of two pages, and the first chunk of the
\* second page has chunkIndex 0 again
C25_IndexRestartsPerPage ==
  /\ ck.pc = "returned"
  /\ ck.fn = "chunkByPages"
  /\ Len(ck.result) = 2
  /\ ck.result[1].pageNumber = 1 /\ ck.result[1].chunkIndex = 0
  /\ ck.result[2].pageNumber = 2 /\ ck.result[2].chunkIndex = 0

-----------------------------------------------------------------------------
(* Claims about the outcome of an ingestion job, checked under SpecInsertLoop *)

\* the job of p takes its last step
JobEnds(p) == job[p].pc # "end" /\ job'[p].pc = "end"

\* parsing, chunking and embedBatch completed without throwing
PreparedWithoutThrow(j) ==
  j.error \notin {"pdf parse failed", "chunking failed", "OPENAI_API_KEY not configured"}

\* C29: a job ends with the row 'ready' if and only if parsing, chunking and
\* embedBatch did not throw and at most 5 inserts failed; on the 6th failed
\* insert it stops inserting and ends 'failed' with an error message,
\* totalChunks unset and the rows inserted so far kept.
C29_IngestionOutcome ==
  [][\A p \in PdfIds : JobEnds(p) =>
       LET j == job[p]
       IN /\ pdfs'[p].status = "ready"
               <=> (PreparedWithoutThrow(j) /\ j.failCount <= MAX_INSERT_FAILURES)
          /\ j.failCount > MAX_INSERT_FAILURES =>
               /\ j.failCount = MAX_INSERT_FAILURES + 1
               /\ j.successCount + j.failCount = j.i + 1
               /\ pdfs'[p].status = "failed"
               /\ pdfs'[p].errorMessage # ""
               /\ pdfs'[p].totalChunks = 0
               /\ RowsOf(p)' = RowsOf(p)
               /\ Cardinality(RowsOf(p)) = j.successCount]_vars

\* the part of C29 that holds whatever the status updates do: a job that
\* threw before the loop or met its 6th failed insert never ends 'ready',
\* and after the 6th failed insert nothing more is inserted, totalChunks
\* stays unset and the rows stored so far stay
C29_FailedJobNeverReady ==
  [][\A p \in PdfIds : JobEnds(p) =>
       LET j == job[p]
       IN /\ pdfs'[p].status = "ready"
               => (PreparedWithoutThrow(j) /\ j.failCount <= MAX_INSERT_FAILURES)
          /\ j.failCount > MAX_INSERT_FAILURES =>
               /\ j.failCount = MAX_INSERT_FAILURES + 1
               /\ j.successCount + j.failCount = j.i + 1
               /\ pdfs'[p].status \in {"failed", "processing"}
               /\ pdfs'[p].totalChunks = 0
               /\ RowsOf(p)' = RowsOf(p)
               /\ Cardinality(RowsOf(p)) = j.successCount]_vars

\* a job with no throw before the loop and no failed insert ended 'failed':
\* its 'ready' update threw
C29_FailedWithoutInsertFailure ==
  /\ job["p1"].pc = "end"
  /\ pdfs["p1"].status = "failed"
  /\ pdfs["p1"].errorMessage = "status update failed"
  /\ Cardinality(RowsOf("p1")) = ManyChunks

\* a job that stored a row is over and the row is still 'processing': the
\* 'failed' update of its catch block threw
C29_EndedStillProcessing ==
  /\ job["p1"].pc = "end"
  /\ pdfs["p1"].status = "processing"
  /\ Cardinality(RowsOf("p1")) = 1

\* a job ended 'failed' on its 6th failed insert with one row stored
C29_SixFailuresRowsKept ==
  /\ job["p1"].pc = "end"
  /\ pdfs["p1"].status = "failed"
  /\ pdfs["p1"].errorMessage = "too many insert failures"
  /\ pdfs["p1"].totalChunks = 0
  /\ Cardinality(RowsOf("p1")) = 1

-----------------------------------------------------------------------------
(* Claim about the last fallback, checked under Spec *)

\* the first row of the request's document in chunk-index order
FirstDocRow == CHOOSE c \in DocRows : \A d \in DocRows : c.chunkIndex <= d.chunkIndex

\* C30: uniform sampling always includes the chunk at position 0, so its
\* sample is empty only for a document without stored chunks, and every run
\* of the first-N fallback returns an empty list.
C30_FirstNNeverContributes ==
  /\ Len(rq.outs) >= 3 =>
       /\ rq.outs[3].chunks = <<>> <=> DocRows = {}
       /\ DocRows # {} => rq.outs[3].chunks[1] = Unscored(FirstDocRow)
  /\ Len(rq.outs) >= 4 =>
       /\ rq.outs[4].strategy = 4
       /\ rq.outs[4].chunks = <<>>
       /\ rq.relevantChunks = <<>>
       /\ DocRows = {}

\* the first-N fallback ran on a 'ready' document without stored chunks and
\* the answer was built on no chunk
C30_Witness ==
  /\ Len(rq.outs) = 4
  /\ FirstNReads # {}
  /\ rq.pdfRecord.status = "ready"
  /\ rq.outs[4].chunks = <<>>
  /\ rq.response.status = 200
  /\ rq.response.chunksRetrieved = 0

====
